---------------------------- MODULE Spec2Model ----------------------------
(***************************************************************************)
(* BOS-Radio-Bridge: the VOX controller, the echo interlock, the TX        *)
(* processing loop, the DMR gateway emitter and the bridge life cycle,     *)
(* as state machines translated from src/.                                 *)
(*                                                                         *)
(* Time is a discrete clock `now` (one tick is one unit of the configured  *)
(* millisecond values); every time.time() read of a handler step returns   *)
(* `now`.  A PCM buffer is a sequence of int16 samples.                    *)
(***************************************************************************)
EXTENDS Integers, Sequences, FiniteSets, TLC

VARIABLES
    now,        \* the wall clock, time.time()
    vox,        \* VOXController fields
    cbk,        \* observer of the PTT callback invocations made by VOXController
    feed,       \* observer of the frames handed to the VOX stage
    cfg,        \* config['echo_interlock']: enable, tx_mute_gain
    il,         \* EchoInterlock fields
    rxg,        \* observer of the RX deliveries (set_rx_active(True) calls)
    q2,         \* processor_to_vox_queue
    tx,         \* the TX processing thread: position and packet in hand
    q3,         \* vox_to_gateway_queue
    gw,         \* DMRGateway fields
    wire,       \* observer of the datagrams sent to the modem
    scen,       \* observer of the stream of frames the VOX stage evaluated
    br,         \* BOSRadioBridge: running, the main thread, the stop() calls
    q1,         \* usrp_to_processor_queue
    usrp,       \* USRPServer fields
    mm,         \* MMDVMReceiver fields
    q4,         \* mmdvm_to_jitter_queue
    jb,         \* JitterBuffer fields
    jcall,      \* observer of the JitterBuffer.process() calls
    q5,         \* jitter_to_processor_rx_queue
    q6,         \* processor_rx_to_usrp_client_queue
    uc,         \* USRPClient fields and the sequence of the frame it took last
    udp,        \* observer of the USRP datagrams handled and built
    tlv,        \* a TLV frame on its way from an emitter to the parser
    mrx,        \* observer of the TLV datagrams the MMDVM receiver handled
    rs,         \* the last AudioResampler.resample call: input, rate, output
    ip,         \* AudioProcessor: its plugins, its counters, the last process_audio call
    lk          \* the holders of the two locks and each thread's position in its loop

-----------------------------------------------------------------------------
(* Bounds of the model *)

\* The clock stops advancing at MaxTime.
MaxTime == 4

\* At most MaxFrames frames are injected in one run.
MaxFrames == 3

\* The same two bounds for the VOX controller driven alone.
VoxMaxTime == 6

VoxMaxFrames == 4

-----------------------------------------------------------------------------
(* Configuration (config.json): one instance, in clock ticks *)

\* config['vox']['threshold']
Threshold == 2

\* config['vox']['hangtime_ms']
HangTime == 1

\* config['vox']['hard_timeout_ms']
HardTimeout == 3

\* The frame period of the input stream (VOXController.frame_time, 20 ms).
FramePeriod == 2

\* The sample value of a loud frame (above Threshold).
Loud == Threshold + 2

\* PCM buffers of the injected frames: empty, silence, exactly at the
\* threshold, and loud.
PcmValues == { <<>>, <<0>>, <<Threshold>>, <<Loud>> }

-----------------------------------------------------------------------------
(* Audio packets (the dict passed between the stages) *)

\* A packet as the ingress side creates it: no ptt_active, echo_muted or
\* amplitude key.  has_ptt says whether the key 'ptt_active' is present;
\* amplitude = -1 stands for an absent 'amplitude' key.  win is an observer
\* mark, not a key of the dict: the interlock evaluated this frame after an
\* RX delivery T and before T + rx_timeout.
NewPacket(pcm) ==
    [ pcm_data   |-> pcm,
      has_ptt    |-> FALSE,
      ptt_active |-> FALSE,
      echo_muted |-> FALSE,
      amplitude  |-> -1,
      win        |-> FALSE ]

\* audio_packet.get('ptt_active', False)
GetPttActive(pkt) == pkt.has_ptt /\ pkt.ptt_active

-----------------------------------------------------------------------------
(* VOXController *)

RECURSIVE SumSq(_)
SumSq(pcm) == IF pcm = <<>> THEN 0 ELSE Head(pcm) * Head(pcm) + SumSq(Tail(pcm))

RECURSIVE ISqrtFrom(_, _)
ISqrtFrom(n, r) == IF (r + 1) * (r + 1) > n THEN r ELSE ISqrtFrom(n, r + 1)

\* _calculate_amplitude: sqrt(mean(x^2)), here rounded down to an integer.
CalculateAmplitude(pcm) ==
    IF pcm = <<>> THEN 0 ELSE ISqrtFrom(SumSq(pcm) \div Len(pcm), 0)

\* amplitude > self.threshold, on the exact mean square.
AboveThreshold(pcm) ==
    pcm # <<>> /\ SumSq(pcm) > Threshold * Threshold * Len(pcm)

VoxInit ==
    [ ptt_active              |-> FALSE,
      last_activity_time      |-> 0,
      transmission_start_time |-> 0,
      ptt_activations         |-> 0,
      ptt_deactivations       |-> 0,
      hard_timeouts           |-> 0 ]

\* _check_hard_timeout: the condition under which it returns True.
HardTimeoutExceeded(v, t) ==
    v.ptt_active /\ t - v.transmission_start_time >= HardTimeout

\* _check_hard_timeout: its effect on the counters.
CheckHardTimeout(v, t) ==
    IF HardTimeoutExceeded(v, t)
    THEN [v EXCEPT !.hard_timeouts = @ + 1]
    ELSE v

\* _activate_ptt(current_time)
ActivatePtt(v, t) ==
    IF v.ptt_active THEN v
    ELSE [v EXCEPT !.ptt_active = TRUE,
                   !.transmission_start_time = t,
                   !.last_activity_time = t,
                   !.ptt_activations = @ + 1]

\* A faulty variant of _deactivate_ptt, for comparison: PTT is never
\* released.
DeactivatePttNever(v) == v

\* _deactivate_ptt()
DeactivatePtt(v) ==
    IF ~v.ptt_active THEN v
    ELSE [v EXCEPT !.ptt_active = FALSE,
                   !.ptt_deactivations = @ + 1]

\* A faulty variant of the hangtime test, for comparison: no hangtime.
HangtimeExpiredAtOnce(v, t) == TRUE

\* The hangtime test of process_audio_frame.
HangtimeExpired(v, t) == t - v.last_activity_time >= HangTime

\* process_audio_frame(audio_packet) called at time t: the new controller
\* state, the returned packet and the PTT callback it made ("none", "on",
\* "off"; a call makes at most one).
ProcessAudioFrame(v, pkt, t) ==
    IF pkt.pcm_data = <<>>
    THEN [vox |-> v, pkt |-> pkt, cb |-> "none"]
    ELSE IF HardTimeoutExceeded(v, t)
    THEN [vox |-> DeactivatePtt(CheckHardTimeout(v, t)), pkt |-> pkt, cb |-> "off"]
    ELSE LET v1 == IF AboveThreshold(pkt.pcm_data)
                   THEN [ActivatePtt(v, t) EXCEPT !.last_activity_time = t]
                   ELSE IF v.ptt_active /\ HangtimeExpired(v, t)
                        THEN DeactivatePtt(v)
                        ELSE v
         IN  [vox |-> v1,
              pkt |-> [pkt EXCEPT !.has_ptt = TRUE,
                                  !.ptt_active = v1.ptt_active,
                                  !.amplitude = CalculateAmplitude(pkt.pcm_data)],
              cb  |-> IF v1.ptt_active = v.ptt_active THEN "none"
                      ELSE IF v1.ptt_active THEN "on" ELSE "off"]

\* force_ptt_off()
ForcePttOff(v) == IF v.ptt_active THEN DeactivatePtt(v) ELSE v

-----------------------------------------------------------------------------
(* EchoInterlock *)

\* config['echo_interlock']['rx_timeout_ms']
RxTimeout == 2

\* tx_mute_gain values, in halves: 0 is 0.0, 1 is 0.5, 2 is 1.0.
MuteGains == {0, 1, 2}

GainUnit == 2

\* The configurations of the interlock.
Configs ==
    { [enable |-> TRUE, tx_mute_gain |-> g] : g \in MuteGains }
        \cup { [enable |-> FALSE, tx_mute_gain |-> 0] }

InterlockInit == [rx_active |-> FALSE, rx_last_activity |-> 0, tx_muted |-> FALSE]

\* set_rx_active(active) at time t
SetRxActive(s, active, t) ==
    IF active
    THEN [s EXCEPT !.rx_active = TRUE, !.rx_last_activity = t]
    ELSE IF t - s.rx_last_activity > RxTimeout
         THEN [s EXCEPT !.rx_active = FALSE]
         ELSE s

\* A faulty variant of is_tx_muted, for comparison: the RX activity times
\* out already when exactly rx_timeout has elapsed.
IsTxMutedEarly(s, c, t) ==
    IF ~c.enable
    THEN [il |-> s, muted |-> FALSE]
    ELSE LET active == s.rx_active /\ t - s.rx_last_activity < RxTimeout
         IN  [il |-> [s EXCEPT !.rx_active = active, !.tx_muted = active],
              muted |-> active]

\* The timeout test of is_tx_muted.
RxTimedOut(s, t) == t - s.rx_last_activity > RxTimeout

\* is_tx_muted() at time t: the new interlock state and the value returned.
IsTxMuted(s, c, t) ==
    IF ~c.enable
    THEN [il |-> s, muted |-> FALSE]
    ELSE LET active == s.rx_active /\ ~RxTimedOut(s, t)
         IN  [il |-> [s EXCEPT !.rx_active = active, !.tx_muted = active],
              muted |-> active]

\* get_tx_gain(original_gain) at time t, gains in units of 1/GainUnit.
GetTxGain(s, c, original_gain, t) ==
    IF ~c.enable
    THEN [il |-> s, gain |-> original_gain]
    ELSE LET r == IsTxMuted(s, c, t)
         IN  [il |-> r.il,
              gain |-> IF r.muted
                       THEN (c.tx_mute_gain * original_gain) \div GainUnit
                       ELSE original_gain]

\* (x * gain).astype(np.int16): the product cut toward zero.
ScaleSample(x, gain) ==
    IF x >= 0 THEN (x * gain) \div GainUnit ELSE -(((-x) * gain) \div GainUnit)

\* (audio_array * mute_gain).astype(np.int16).tobytes()
ScalePcm(pcm, gain) == [i \in 1..Len(pcm) |-> ScaleSample(pcm[i], gain)]

-----------------------------------------------------------------------------
(* DMRGateway *)

GatewayInit ==
    [ running           |-> FALSE,
      socket            |-> FALSE,
      ptt_active        |-> FALSE,
      packets_sent      |-> 0,
      ptt_commands_sent |-> 0,
      errors            |-> 0 ]

\* start(): the socket is created and the send thread started.
GatewayStart(g) ==
    IF g.running THEN g ELSE [g EXCEPT !.socket = TRUE, !.running = TRUE]

\* A faulty variant of send_ptt_command, for comparison: the command is
\* left for the send loop and nothing is sent by the caller.
SendPttCommandLater(g, ptt_on, ok) == g

\* send_ptt_command(ptt_on); ok says whether sendto succeeded.
SendPttCommand(g, ptt_on, ok) ==
    IF ~g.socket THEN g
    ELSE IF ok
    THEN [g EXCEPT !.ptt_active = ptt_on, !.ptt_commands_sent = @ + 1]
    ELSE [g EXCEPT !.errors = @ + 1]

\* _send_pcm_data(pcm_data); ok says whether sendto succeeded.
SendPcmData(g, ok) ==
    IF ~g.socket THEN g
    ELSE IF ok
    THEN [g EXCEPT !.packets_sent = @ + 1]
    ELSE [g EXCEPT !.errors = @ + 1]

\* stop(): a PTT-off command if PTT is on, then the socket is closed.
GatewayStop(g) ==
    IF ~g.running THEN g
    ELSE LET g1 == [g EXCEPT !.running = FALSE]
             g2 == IF g1.ptt_active THEN SendPttCommand(g1, FALSE, TRUE) ELSE g1
         IN  [g2 EXCEPT !.socket = FALSE]

\* A faulty variant of the test below, for comparison: the flag is ignored.
GatewaySendsAlways(pkt) == pkt.pcm_data # <<>>

\* _send_loop: whether the dequeued packet is handed to _send_pcm_data.
GatewaySends(pkt) == pkt.pcm_data # <<>> /\ GetPttActive(pkt)

-----------------------------------------------------------------------------
(* USRPServer *)

UsrpInit ==
    [ running              |-> FALSE,
      socket               |-> FALSE,
      sequence_counter     |-> 0,
      packet_count         |-> 0,
      error_count          |-> 0,
      control_packet_count |-> 0 ]

\* start(): the socket is bound and the receive thread started.
UsrpStart(u) ==
    IF u.running THEN u ELSE [u EXCEPT !.socket = TRUE, !.running = TRUE]

\* stop()
UsrpStop(u) ==
    IF ~u.running THEN u ELSE [u EXCEPT !.running = FALSE, !.socket = FALSE]

\* The audio_packet dict _handle_packet builds from an audio datagram.
UsrpPacket(sequence, pcm) == [sequence |-> sequence, pcm_data |-> pcm]

\* The datagrams a client sends: audio frames, control packets, packets of
\* an unknown type.
UsrpKinds == {"audio", "control", "unknown"}

-----------------------------------------------------------------------------
(* BOSRadioBridge._tx_processing_loop *)

\* Queue(maxsize=100), scaled.
QueueCap == 2

\* A faulty variant of the gate below, for comparison: echo_muted is
\* ignored.
TxGateNoMute(pkt) == GetPttActive(pkt)

\* The gate in front of vox_to_gateway_queue.
TxGate(pkt) == GetPttActive(pkt) /\ ~pkt.echo_muted

\* Queue.put(item, timeout): the item is appended, or dropped when the
\* queue is still full at the timeout.
QueuePut(q, item) == IF Len(q) < QueueCap THEN Append(q, item) ELSE q

\* The thread's position, the packet in hand, what is_tx_muted() returned
\* for it and the gain get_tx_gain(1.0) returned (mute_gain; 1.0 while the
\* buffer is untouched).
TxInit ==
    [ pc |-> "get", pkt |-> NewPacket(<<>>), muted |-> FALSE,
      mute_gain |-> GainUnit ]

-----------------------------------------------------------------------------
(* The USRP wire format: USRPServer._parse_usrp_packet and _handle_packet, *)
(* USRPClient._create_usrp_packet.  A datagram is a sequence of bytes.     *)

\* USRP_MAGIC = b'USRP'
UsrpMagic == <<85, 83, 82, 80>>

\* HEADER_SIZE
HeaderSize == 32

PacketTypeAudio == 0

PacketTypeControl == 1

\* The offset at which the client packs and the server unpacks the '<I'
\* payload length.
PayloadLengthOffset == 30

\* The audio format of the client (config['audio'] defaults).
SampleRate == 8000

Channels == 1

SampleWidth == 2

\* int(time.time() * 1000000) at clock tick t (a tick is a millisecond).
TimestampUs(t) == t * 1000

\* struct.pack('<...', n): the k bytes of n, least significant first.
RECURSIVE LE(_, _)
LE(n, k) == IF k = 0 THEN <<>> ELSE <<n % 256>> \o LE(n \div 256, k - 1)

\* The number that little-endian bytes stand for.
RECURSIVE FromLE(_)
FromLE(b) == IF b = <<>> THEN 0 ELSE Head(b) + 256 * FromLE(Tail(b))

\* data[a:b], offsets from 0, cut at the end of data.
Slice(data, a, b) ==
    SubSeq(data, a + 1, IF b < Len(data) THEN b ELSE Len(data))

\* struct.unpack of a k-byte format on the bytes b: struct.error unless b
\* holds exactly k bytes.
Unpack(b, k) ==
    IF Len(b) = k THEN [ok |-> TRUE, v |-> FromLE(b)] ELSE [ok |-> FALSE, v |-> 0]

\* struct.pack_into of a k-byte format at offset: struct.error unless the
\* buffer holds offset + k bytes.
PackInto(buf, offset, k, n) ==
    IF offset + k > Len(buf)
    THEN [ok |-> FALSE, buf |-> buf]
    ELSE [ok |-> TRUE,
          buf |-> SubSeq(buf, 1, offset) \o LE(n, k)
                      \o SubSeq(buf, offset + k + 1, Len(buf))]

\* len(data) < HEADER_SIZE
TooShort(data) == Len(data) < HeaderSize

NoHeader ==
    [ packet_type |-> 0, sequence |-> 0, timestamp |-> 0, sample_rate |-> 0,
      channels |-> 0, sample_width |-> 0, reserved |-> 0, payload_length |-> 0 ]

\* _parse_usrp_packet: status "ok" with the header and the payload, "none"
\* for a None returned without counting, "struct_error" for a None returned
\* from the struct.error handler, which counts an error.
ParseUsrpPacket(data) ==
    IF TooShort(data) \/ Slice(data, 0, 4) # UsrpMagic
    THEN [status |-> "none", header |-> NoHeader, payload |-> <<>>]
    ELSE LET f(a, k) == Unpack(Slice(data, a, a + k), k)
             pl == f(PayloadLengthOffset, 4)
         IN  IF ~pl.ok
             THEN [status |-> "struct_error", header |-> NoHeader, payload |-> <<>>]
             ELSE IF Len(data) < HeaderSize + pl.v
             THEN [status |-> "none", header |-> NoHeader, payload |-> <<>>]
             ELSE [ status |-> "ok",
                    header |-> [ packet_type    |-> f(4, 4).v,
                                 sequence       |-> f(8, 4).v,
                                 timestamp      |-> f(12, 8).v,
                                 sample_rate    |-> f(20, 4).v,
                                 channels       |-> f(24, 2).v,
                                 sample_width   |-> f(26, 2).v,
                                 reserved       |-> f(28, 2).v,
                                 payload_length |-> pl.v ],
                    payload |-> Slice(data, HeaderSize, HeaderSize + pl.v) ]

\* The audio_packet dict _handle_packet builds from a parsed audio
\* datagram.
UsrpFrame(header, payload) ==
    [ sequence     |-> header.sequence,
      timestamp    |-> header.timestamp,
      sample_rate  |-> header.sample_rate,
      channels     |-> header.channels,
      sample_width |-> header.sample_width,
      pcm_data     |-> payload ]

\* _handle_packet on a datagram: the server fields and the audio queue
\* after it.  A frame that finds the queue full is dropped with a warning.
HandlePacket(u, q, data) ==
    LET p  == ParseUsrpPacket(data)
        h  == p.header
    IN  IF p.status = "struct_error"
        THEN [usrp |-> [u EXCEPT !.error_count = @ + 1], q |-> q]
        ELSE IF p.status = "none"
        THEN [usrp |-> u, q |-> q]
        ELSE IF h.packet_type = PacketTypeControl
        THEN [usrp |-> [u EXCEPT !.control_packet_count = @ + 1], q |-> q]
        ELSE IF h.packet_type = PacketTypeAudio
        THEN LET u1 == [u EXCEPT !.sequence_counter =
                                     IF h.sequence > @ THEN h.sequence ELSE @]
             IN  IF Len(q) < QueueCap
                 THEN [usrp |-> [u1 EXCEPT !.packet_count = @ + 1],
                       q |-> Append(q, UsrpFrame(h, p.payload))]
                 ELSE [usrp |-> u1, q |-> q]
        ELSE [usrp |-> u, q |-> q]

\* numpy int16 samples as bytes: two per sample, least significant first,
\* negative samples in two's complement.
RECURSIVE PcmBytes(_)
PcmBytes(pcm) ==
    IF pcm = <<>> THEN <<>>
    ELSE LE((Head(pcm) + 65536) % 65536, 2) \o PcmBytes(Tail(pcm))

\* The pack_into calls of _create_usrp_packet in their order: offset,
\* size, value.
HeaderFields(n, pcm_data, t) ==
    << <<4, 4, PacketTypeAudio>>, <<8, 4, n>>, <<12, 8, TimestampUs(t)>>,
       <<20, 4, SampleRate>>, <<24, 2, Channels>>, <<26, 2, SampleWidth>>,
       <<28, 2, 0>>, <<PayloadLengthOffset, 4, Len(pcm_data)>> >>

\* The pack_into calls one after the other, up to the first that raises.
RECURSIVE PackAll(_, _)
PackAll(buf, fields) ==
    IF fields = <<>>
    THEN [ok |-> TRUE, buf |-> buf]
    ELSE LET r == PackInto(buf, Head(fields)[1], Head(fields)[2], Head(fields)[3])
         IN  IF r.ok THEN PackAll(r.buf, Tail(fields)) ELSE [ok |-> FALSE, buf |-> buf]

\* _create_usrp_packet(pcm_data) at time t with sequence counter n: the
\* packet (empty when a pack_into raised) and the counter afterwards, which
\* is incremented once the sequence is packed.
CreateUsrpPacket(n, pcm_data, t) ==
    LET b0 == [i \in 1..HeaderSize |-> IF i <= 4 THEN UsrpMagic[i] ELSE 0]
        fs == HeaderFields(n, pcm_data, t)
        r  == PackAll(b0, fs)
    IN  [ packet |-> IF r.ok THEN r.buf \o pcm_data ELSE <<>>,
          sequence_counter |-> IF PackAll(b0, SubSeq(fs, 1, 2)).ok THEN n + 1 ELSE n ]

\* The observer of the USRP datagrams: of the last datagram the server
\* handled, its bytes and the queue and the server fields it found; of the
\* last packet the client built, its bytes and what it was built from
\* (builds = -1: the client is not observed) and the number of its sendto
\* calls that raised.
UdpInit ==
    [ n           |-> 0,
      data        |-> <<>>,
      q1_before   |-> <<>>,
      usrp_before |-> UsrpInit,
      builds      |-> -1,
      built       |-> <<>>,
      built_pcm   |-> <<>>,
      built_seq   |-> 0,
      built_time  |-> 0,
      fails       |-> 0 ]

-----------------------------------------------------------------------------
(* The TLV frames of the modem link: DMRGateway._create_tlv_frame and      *)
(* _create_ptt_command, MMDVMReceiver._parse_tlv_frame.                    *)

TlvTypePcm == 0

TlvTypeAmbe == 1

TlvTypePttStart == 5

TlvTypePttStop == 6

\* struct.pack('<H', n): struct.error unless 0 <= n <= 65535.
PackH(n) ==
    IF n >= 0 /\ n <= 65535
    THEN [ok |-> TRUE, bytes |-> LE(n, 2)]
    ELSE [ok |-> FALSE, bytes |-> <<>>]

\* _create_tlv_frame(pcm_data): type, length, value; b'' when the length
\* does not pack.
CreateTlvFrame(pcm_data) ==
    LET l == PackH(Len(pcm_data))
    IN  IF l.ok THEN <<TlvTypePcm>> \o l.bytes \o pcm_data ELSE <<>>

\* _create_ptt_command(ptt_on): type, length 0, no value.
CreatePttCommand(ptt_on) ==
    <<IF ptt_on THEN TlvTypePttStart ELSE TlvTypePttStop>> \o PackH(0).bytes

\* A faulty variant of the length field below, for comparison: its first
\* byte only.
TlvLengthOneByte(data) == data[2]

\* _parse_tlv_frame: struct.unpack('<H', data[1:3]) of a datagram of three
\* bytes or more.
TlvLength(data) == FromLE(Slice(data, 1, 3))

\* _parse_tlv_frame: the type and the value, or None.
ParseTlvFrame(data) ==
    IF Len(data) < 3
    THEN [ok |-> FALSE, type |-> 0, value |-> <<>>]
    ELSE IF Len(data) < 3 + TlvLength(data)
    THEN [ok |-> FALSE, type |-> 0, value |-> <<>>]
    ELSE [ok |-> TRUE, type |-> data[1],
          value |-> Slice(data, 3, 3 + TlvLength(data))]

MmdvmInit ==
    [ sequence_counter |-> 0, packets_received |-> 0, errors |-> 0,
      bytes_received |-> 0 ]

\* The audio_packet dict MMDVMReceiver._handle_packet builds from a PCM
\* frame.
MmdvmPacket(sequence, pcm) ==
    [sequence |-> sequence, pcm_data |-> pcm, processed |-> FALSE]

\* MMDVMReceiver._handle_packet on a datagram: the receiver fields and the
\* audio queue after it.  A frame that is not PCM is ignored with a debug
\* message, a frame that finds the queue full is dropped with a warning.
MmdvmHandlePacket(m, q, data) ==
    LET p == ParseTlvFrame(data)
    IN  IF ~p.ok \/ p.type # TlvTypePcm \/ p.value = <<>>
        THEN [mm |-> m, q |-> q]
        ELSE LET m1 == [m EXCEPT !.sequence_counter = @ + 1]
             IN  IF Len(q) < QueueCap
                 THEN [mm |-> [m1 EXCEPT !.packets_received = @ + 1,
                                         !.bytes_received = @ + Len(data)],
                       q |-> Append(q, MmdvmPacket(m.sequence_counter, p.value))]
                 ELSE [mm |-> m1, q |-> q]

\* No frame built yet.
TlvInit ==
    [ pc |-> "idle", type |-> 0, value |-> <<>>, frame |-> <<>>,
      parsed |-> ParseTlvFrame(<<>>) ]

\* The observer of the modem's datagrams: the last one handled, and the
\* receiver fields and the queue it found.
MrxInit == [n |-> 0, data |-> <<>>, mm_before |-> MmdvmInit, q4_before |-> <<>>]

\* AudioResampler.max_samples, the size of the pre-allocated buffers.
MaxSamples == 4096

\* _linear_resample on the int16 samples a, taken when the rates differ.
\* output_length = int(len * ratio).  When it fits the pre-allocated
\* buffers the index vector is asked from np.arange(..., out=...), a
\* keyword np.arange does not have: TypeError.  Longer outputs take the
\* fallback: output i interpolates linearly at position i / ratio between
\* the samples at floor (clipped to 0..len-2) and floor + 1, is clipped to
\* int16 and truncated by astype.
LinearResample(a, input_rate, output_rate) ==
    LET n == Len(a)
        output_length == (n * output_rate) \div input_rate
        At(k) == a[IF k < 0 THEN n + k + 1 ELSE k + 1]
        Clip(x, lo, hi) == IF x < lo THEN IF lo > hi THEN hi ELSE lo
                           ELSE IF x > hi THEN hi ELSE x
        Trunc(x, d) == IF x >= 0 THEN x \div d ELSE -((-x) \div d)
        Sample(i) ==
            LET pos == i * input_rate
                f   == Clip(pos \div output_rate, 0, n - 2)
                rem == pos % output_rate
            IN  Trunc(Clip(At(f) * (output_rate - rem) + At(f + 1) * rem,
                           -32768 * output_rate, 32767 * output_rate),
                      output_rate)
    IN  IF output_length <= MaxSamples
        THEN [raised |-> TRUE, samples |-> <<>>]
        ELSE [raised |-> FALSE,
              samples |-> [i \in 1..output_length |-> Sample(i - 1)]]

\* AudioResampler.resample on mono input (input_channels = target_channels
\* = 1): the samples as they are when the rate is the target rate, else
\* _linear_resample; on any exception, the original data.
Resample(a, input_sample_rate) ==
    IF input_sample_rate = SampleRate
    THEN a
    ELSE LET r == LinearResample(a, input_sample_rate, SampleRate)
         IN  IF r.raised THEN a ELSE r.samples

\* No resample call made yet.
RsInit == [calls |-> 0, input |-> <<>>, rate |-> SampleRate, output |-> <<>>]

\* _process_interception_pipe with the pipe enabled, on the registered
\* plugins and the buffer pcm_data: the buffer returned and the number of
\* plugins invoked.  A plugin is known by what it does: "gain" returns a
\* buffer of the same length (every byte plus one), "odd" returns the
\* buffer without its last byte (no whole number of samples), "raise"
\* raises.  The loop breaks at the first plugin that raises and returns
\* processed_data as it stands; what a plugin returns is not inspected.
ProcessInterceptionPipe(plugins, pcm_data) ==
    LET RECURSIVE Run(_, _)
        Run(i, data) ==
            IF i > Len(plugins)
            THEN [data |-> data, invoked |-> Len(plugins)]
            ELSE IF plugins[i] = "raise"
            THEN [data |-> data, invoked |-> i]
            ELSE IF plugins[i] = "odd"
            THEN Run(i + 1, SubSeq(data, 1, Len(data) - 1))
            ELSE Run(i + 1, [k \in 1..Len(data) |-> (data[k] + 1) % 256])
    IN  Run(1, pcm_data)

\* A faulty variant of the loops below, for comparison: every thread takes
\* the status-logger lock inside the echo-interlock lock.
ProgramNested(th) ==
    << [op |-> "acquire", lock |-> "il", skip |-> 1],
       [op |-> "acquire", lock |-> "st", skip |-> 1],
       [op |-> "release", lock |-> "st", skip |-> 1],
       [op |-> "release", lock |-> "il", skip |-> 1] >>

\* The loop of each thread of the bridge as the sequence of its lock and
\* queue operations: "acquire" and "release" of EchoInterlock.lock (il) or
\* StatusLogger.lock (st) at the entry and the exit of a `with self.lock`
\* block, "queue" for a queue get or put with its timeout, "sleep" for
\* time.sleep, "branch" for a conditional that skips the next skip - 1
\* operations.  After the last operation the loop starts again.
Program(th) ==
    LET Op(o, l) == [op |-> o, lock |-> l, skip |-> 1]
        Branch(n) == [op |-> "branch", lock |-> "none", skip |-> n]
    IN  CASE th = "tx" ->
               << Op("queue", "none"),      \* processor_to_vox_queue.get
                  Op("acquire", "il"),      \* is_tx_muted()
                  Op("release", "il"),
                  Branch(3),                \* not muted, or no PCM
                  Op("acquire", "il"),      \* get_tx_gain(): is_tx_muted()
                  Op("release", "il"),
                  Op("acquire", "st"),      \* update_tx_status
                  Op("release", "st"),
                  Branch(3),                \* the VOX made no callback
                  Op("acquire", "st"),      \* _ptt_callback: update_tx_status
                  Op("release", "st"),
                  Branch(2),                \* the gate is closed
                  Op("queue", "none") >>    \* vox_to_gateway_queue.put
          [] th = "rx" ->
               << Op("queue", "none"),      \* jitter_to_processor_rx_queue.get
                  Op("acquire", "il"),      \* set_rx_active(True)
                  Op("release", "il"),
                  Op("acquire", "st"),      \* update_rx_status
                  Op("release", "st"),
                  Branch(2),                \* process_rx_audio returned None
                  Op("queue", "none") >>    \* processor_rx_to_usrp_client_queue.put
          [] th = "jitter" ->
               << Op("queue", "none"),      \* process(): output_queue.put
                  Op("sleep", "none") >>
          [] th = "stats" ->
               << Op("sleep", "none"),
                  Op("acquire", "st"),      \* get_stats(): status_logger.get_stats
                  Op("release", "st") >>
          [] OTHER ->                       \* the status logger's thread
               << Op("sleep", "none"),
                  Op("acquire", "st"),      \* _format_status_line
                  Op("release", "st") >>

CodecIdle ==
    /\ lk = [ il |-> "none", st |-> "none",
              pc |-> [th \in {"tx", "rx", "jitter", "stats", "status"} |-> 1] ]
    /\ tlv = TlvInit
    /\ mrx = MrxInit
    /\ rs = RsInit
    /\ ip = [ plugins |-> <<>>, processed_frames |-> 0, dropped_frames |-> 0,
              calls |-> 0, input |-> <<>>, output |-> <<>>, invoked |-> 0,
              returned |-> FALSE ]

-----------------------------------------------------------------------------
(* MMDVMReceiver, JitterBuffer, USRPClient: the stages of the RX direction *)

\* config['jitter_buffer']['frame_time_ms']
JitterFrameTime == 2

\* config['jitter_buffer']['buffer_size'], the target depth D
BufferSize == 2

\* AudioProcessor.gain of the RX processor: 1.0, in units of 1/GainUnit.
RxGain == GainUnit

\* AudioProcessor.process_rx_audio on a packet with PCM data (AGC off, no
\* interception modules): the gain is applied and the copy is marked.
ProcessRxAudio(pkt) ==
    [pkt EXCEPT !.pcm_data = ScalePcm(@, RxGain), !.processed = TRUE]

JitterInit ==
    [ buffer           |-> <<>>,
      last_output_time |-> 0,
      frames_buffered  |-> 0,
      frames_output    |-> 0,
      frames_dropped   |-> 0,
      underruns        |-> 0 ]

\* process(), the fill loop: frames are taken from the input queue while
\* the buffer holds fewer than D.
RECURSIVE Fill(_, _, _)
Fill(buf, q, D) ==
    IF Len(buf) < D /\ q # <<>>
    THEN Fill(Append(buf, Head(q)), Tail(q), D)
    ELSE [buffer |-> buf, queue |-> q]

\* process(), the overflow loop: the oldest frames are dropped while the
\* buffer holds more than 2 D.
RECURSIVE DropExcess(_, _)
DropExcess(buf, D) ==
    IF Len(buf) > 2 * D THEN DropExcess(Tail(buf), D) ELSE buf

\* A faulty variant of the two loops, for comparison: the input queue is
\* drained whole and nothing is dropped.
FillAll(buf, q, D) == [buffer |-> buf \o q, queue |-> <<>>]

\* process(), the two loops in turn: the buffer and the input queue after
\* them.
FillAndDrop(buf, q, D) ==
    LET f == Fill(buf, q, D)
    IN  [buffer |-> DropExcess(f.buffer, D), queue |-> f.queue]

\* A faulty variant of the pop below, for comparison: the newest frame.
PopNewest(buf) ==
    [frame |-> buf[Len(buf)], rest |-> SubSeq(buf, 1, Len(buf) - 1)]

\* self.buffer.pop(0)
PopOldest(buf) == [frame |-> Head(buf), rest |-> Tail(buf)]

\* A faulty variant of the test below, for comparison: the emission clock
\* is ignored.
EmitDueAlways(j, t) == TRUE

\* The emission clock of process(): elapsed >= frame_time_seconds.
EmitDue(j, t) == t - j.last_output_time >= JitterFrameTime

\* A faulty variant of the test below, for comparison: an underrun is
\* counted whenever the buffer is empty.
IsUnderrunWheneverEmpty(j, buf, t) == buf = <<>>

\* The branch of process() that counts an underrun.
IsUnderrun(j, buf, t) ==
    j.last_output_time # 0 /\ EmitDue(j, t) /\ buf = <<>>

\* process() called at time t with input queue qin and output queue qout:
\* the jitter buffer and the two queues after the call, and the buffer
\* length after the two loops.  A frame popped while the output queue is
\* still full at the put timeout is lost: the exception handler only logs
\* (lost is its sequence number, -1 when the call lost none).
JitterProcess(j, qin, qout, t) ==
    LET f     == FillAndDrop(j.buffer, qin, BufferSize)
        taken == Len(qin) - Len(f.queue)
        j1    == [j EXCEPT !.buffer = f.buffer,
                           !.frames_buffered = @ + taken,
                           !.frames_dropped = @ + (Len(j.buffer) + taken - Len(f.buffer))]
        first == j.last_output_time = 0
        pop   == (IF first THEN TRUE ELSE EmitDue(j, t)) /\ f.buffer # <<>>
        room  == Len(qout) < QueueCap
        p     == PopOldest(f.buffer)
    IN  IF pop /\ room
        THEN [ jb |-> [j1 EXCEPT !.buffer = p.rest,
                                 !.frames_output = @ + 1,
                                 !.last_output_time =
                                     IF first THEN t ELSE @ + JitterFrameTime],
               qin |-> f.queue, qout |-> Append(qout, p.frame),
               filled |-> Len(f.buffer), lost |-> -1 ]
        ELSE IF pop
        THEN [ jb |-> [j1 EXCEPT !.buffer = p.rest],
               qin |-> f.queue, qout |-> qout,
               filled |-> Len(f.buffer), lost |-> p.frame.sequence ]
        ELSE IF IsUnderrun(j, f.buffer, t)
        THEN [ jb |-> [j1 EXCEPT !.underruns = @ + 1, !.last_output_time = t],
               qin |-> f.queue, qout |-> qout,
               filled |-> Len(f.buffer), lost |-> -1 ]
        ELSE [ jb |-> j1, qin |-> f.queue, qout |-> qout,
               filled |-> Len(f.buffer), lost |-> -1 ]

\* The observer of the process() calls.  Of the last call: its time, the
\* fields it found, the buffer length after the two loops, the number of
\* frames it put on the output queue, the frame it popped and lost.  Of one underrun-free period that
\* starts with an emission: t0, the time of that emission (-1: no period);
\* base, last_output_time right after it; count, the frames emitted in the
\* period so far.
JcallInit ==
    [ called       |-> FALSE,
      time         |-> 0,
      last_before  |-> 0,
      under_before |-> 0,
      out_before   |-> 0,
      filled       |-> 0,
      emitted      |-> 0,
      lost         |-> -1,
      t0           |-> -1,
      base         |-> 0,
      count        |-> 0 ]

\* The observer after a call at time t that found the fields j and the
\* output queue qout and returned r; start: an emission of this call is
\* taken as the start of the observed period.
NoteCall(c, j, qout, r, t, start) ==
    LET emitted  == Len(r.qout) - Len(qout)
        underrun == r.jb.underruns # j.underruns
        c1 == [c EXCEPT !.called = TRUE, !.time = t,
                        !.last_before = j.last_output_time,
                        !.under_before = j.underruns,
                        !.out_before = j.frames_output,
                        !.filled = r.filled,
                        !.emitted = emitted,
                        !.lost = r.lost]
    IN  IF underrun
        THEN [c1 EXCEPT !.t0 = -1, !.base = 0, !.count = 0]
        ELSE IF emitted > 0 /\ (start \/ c.t0 = -1)
        THEN [c1 EXCEPT !.t0 = t, !.base = r.jb.last_output_time, !.count = emitted]
        ELSE IF emitted > 0
        THEN [c1 EXCEPT !.count = @ + emitted]
        ELSE c1

\* USRPClient after __init__ and start(); taken is the sequence of the
\* frame its send loop dequeued last (-1: none).
UsrpClientInit ==
    [ sequence_counter |-> 0, packets_sent |-> 0, errors |-> 0, taken |-> -1 ]

\* The RX direction idle.
RxIdle ==
    /\ mm = MmdvmInit
    /\ q4 = <<>>
    /\ jb = JitterInit
    /\ jcall = JcallInit
    /\ q5 = <<>>
    /\ q6 = <<>>
    /\ uc = UsrpClientInit
    /\ udp = UdpInit
    /\ CodecIdle

-----------------------------------------------------------------------------
(* Observers *)

\* RX deliveries: the time of the latest one (-1: none).
RxgInit == [last |-> -1]

NoteDelivery(r, t) == [r EXCEPT !.last = t]

\* Some RX frame was delivered before, at a time T with t < T + RxTimeout
\* (the latest delivery is the one nearest to t).
InRxWindow(r, t) == r.last >= 0 /\ t - r.last < RxTimeout

\* Datagrams on the wire to the modem, and what the send loop did with the
\* packet it dequeued last.
WireInit ==
    [ ptt        |-> "none",   \* the last PTT command sent
      start_time |-> 0,        \* when the last PTT-start was sent
      last       |-> "none",   \* the last datagram sent
      last_win   |-> FALSE,    \* last PCM datagram: frame gated inside an RX window
      from_muted |-> FALSE,    \* last PTT-start: sent on a muted frame
      blocked_win |-> FALSE,   \* last frame at the gate: annotated ptt_active,
                               \* evaluated inside an RX window, and not queued
      deq        |-> "none",   \* last dequeued packet: sent, failed, skipped, empty
      deq_flag   |-> FALSE,    \* last dequeued packet: packet.get('ptt_active', False)
      due        |-> "no",     \* last frame at the VOX stage, if it came with PTT on
                               \* and the hard timeout elapsed: empty, silent, loud
      due_hts    |-> 0,        \* that frame: increments of hard_timeouts
      due_offs   |-> 0,        \* that frame: callback(False) calls
      due_fwd    |-> FALSE ]   \* that frame: passed the gate to the gateway queue

\* The stream of frames evaluated by the VOX stage, and the datagrams sent
\* for it.
ScenInit ==
    [ shape      |-> "pre",    \* pre, loud, post, other (off: not observing)
      first_loud |-> 0,        \* time of the first loud frame
      last_loud  |-> 0,        \* time of the last loud frame
      loud_n     |-> 0,        \* loud frames
      hang_n     |-> 0,        \* silent frames less than hangtime after the last loud one
      expired    |-> FALSE,    \* a silent frame came hangtime or more after the last loud one
      dropped    |-> FALSE,    \* some frame was dropped on a full queue
      ht_lock    |-> FALSE,    \* continuously loud since a hard timeout
      starts     |-> 0,        \* PTT-start datagrams sent
      stops      |-> 0,        \* PTT-stop datagrams sent
      stop_time  |-> 0,        \* when the last PTT-stop was sent
      pcm        |-> 0 ]       \* PCM datagrams sent

\* The stream observer switched off (it stays as it is).
ScenOff == [ScenInit EXCEPT !.shape = "off"]

\* BOSRadioBridge after __init__: not running, the main thread about to
\* call run().  stop_calls counts the stop() calls made, stop_raised those
\* that raised, final_ptt says that a stop() called send_ptt_command(False),
\* steps lists the statements of the shutdown sequence that stop() ran.
BridgeInit ==
    [ running     |-> FALSE,
      pc          |-> "new",
      stop_calls  |-> 0,
      stop_raised |-> 0,
      final_ptt   |-> FALSE,
      steps       |-> <<>> ]

\* BOSRadioBridge after start(): running, the main thread in the loop of run().
BridgeStarted == [BridgeInit EXCEPT !.running = TRUE, !.pc = "run"]

PipeIdle ==
    /\ cfg = [enable |-> FALSE, tx_mute_gain |-> 0]
    /\ il = InterlockInit
    /\ rxg = RxgInit
    /\ q2 = <<>>
    /\ tx = TxInit
    /\ q3 = <<>>
    /\ gw = GatewayStart(GatewayInit)
    /\ wire = WireInit
    /\ scen = ScenInit
    /\ br = BridgeStarted
    /\ q1 = <<>>
    /\ usrp = UsrpStart(UsrpInit)
    /\ RxIdle

\* The TX pipeline idle in a bridge that is constructed and not started.
PipeNew ==
    /\ cfg = [enable |-> FALSE, tx_mute_gain |-> 0]
    /\ il = InterlockInit
    /\ rxg = RxgInit
    /\ q2 = <<>>
    /\ tx = TxInit
    /\ q3 = <<>>
    /\ wire = WireInit
    /\ scen = ScenOff
    /\ RxIdle

-----------------------------------------------------------------------------
(* The VOX controller alone, driven by a stream of frames *)

\* The callback observer: the last value the callback was called with and
\* the time of the frame that activated PTT.
\* forced tells the state the last force_ptt_off() call found ("no": none
\* made), forced_cb the callback(False) calls it made, forced_idle whether
\* it left the controller idle; alt tells that no callback so far repeated
\* the value of the one before it and that the first one was "on".
CbkInit ==
    [ last |-> "none", on_time |-> 0, count |-> 0,
      forced |-> "no", forced_cb |-> 0, forced_idle |-> FALSE, alt |-> TRUE ]

Observe(c, cb, t) ==
    IF cb = "none" THEN c
    ELSE [c EXCEPT !.last = cb,
                   !.on_time = IF cb = "on" THEN t ELSE @,
                   !.count = @ + 1,
                   !.alt = @ /\ cb # c.last /\ (c.last = "none" => cb = "on")]

\* The frame-stream observer: how many frames were fed, when the last one
\* was, and whether an empty buffer was fed since PTT was activated.
FeedInit == [n |-> 0, last_time |-> 0, empty_since_on |-> FALSE]

\* The variables of the RX direction.
\* The variables of the codecs checked on their own.
codecVars == <<tlv, mrx, rs, ip, lk>>

rxVars == <<mm, q4, jb, jcall, q5, q6, uc, udp, codecVars>>

vars == <<now, vox, cbk, feed, cfg, il, rxg, q2, tx, q3, gw, wire, scen,
          br, q1, usrp, rxVars>>

\* The variables the VOX-only specification leaves alone.
pipeVars == <<cfg, il, rxg, q2, tx, q3, gw, wire, scen, br, q1, usrp, rxVars>>

\* The variables of the bridge life cycle and of the USRP ingress.
bridgeVars == <<br, q1, usrp, rxVars>>

VoxSpecInit ==
    /\ now = 0
    /\ vox = VoxInit
    /\ cbk = CbkInit
    /\ feed = FeedInit
    /\ PipeIdle

\* One call of process_audio_frame with a frame of the stream.
VoxFrame ==
    \E pcm \in PcmValues :
        LET r == ProcessAudioFrame(vox, NewPacket(pcm), now) IN
        /\ feed.n < VoxMaxFrames
        /\ vox' = r.vox
        /\ cbk' = Observe(cbk, r.cb, now)
        /\ feed' = [ n |-> feed.n + 1,
                     last_time |-> now,
                     empty_since_on |->
                         IF r.cb = "on" THEN FALSE
                         ELSE feed.empty_since_on \/ pcm = <<>> ]
        /\ UNCHANGED <<now, pipeVars>>

\* The clock advances; the stream delivers its next frame no later than one
\* frame period after the previous one.
VoxTick ==
    /\ now < VoxMaxTime
    /\ feed.n < VoxMaxFrames
    /\ feed.n > 0 => now + 1 - feed.last_time <= FramePeriod
    /\ now' = now + 1
    /\ UNCHANGED <<vox, cbk, feed, pipeVars>>

VoxSpecNext == VoxFrame \/ VoxTick

VoxSpec == VoxSpecInit /\ [][VoxSpecNext]_vars

\* C1: for a stream fed at intervals of at most one frame period, PTT is
\* never still on more than hard_timeout + one frame period after the
\* activating frame, whatever the frames are.
C1_HardTimeoutBound ==
    cbk.last = "on" => now - cbk.on_time <= HardTimeout + FramePeriod

\* The same bound for streams in which every frame since the activation
\* carries a non-empty PCM buffer.
HardTimeoutBoundNonEmpty ==
    (cbk.last = "on" /\ ~feed.empty_since_on)
        => now - cbk.on_time <= HardTimeout + FramePeriod

\* force_ptt_off() called by the owner of the controller, at any time.
VoxForceOff ==
    LET v  == ForcePttOff(vox)
        cb == IF v.ptt_deactivations > vox.ptt_deactivations THEN "off" ELSE "none"
    IN  /\ vox' = v
        /\ cbk' = [Observe(cbk, cb, now) EXCEPT
                      !.forced = IF vox.ptt_active THEN "transmitting" ELSE "idle",
                      !.forced_cb = IF cb = "off" THEN 1 ELSE 0,
                      !.forced_idle = ~v.ptt_active]
        /\ UNCHANGED <<now, feed, pipeVars>>

\* The VOX controller driven by a stream of frames and forced off at any
\* time.
VoxForceSpec == VoxSpecInit /\ [][VoxFrame \/ VoxTick \/ VoxForceOff]_vars

\* C34: the PTT callbacks made by process_audio_frame and force_ptt_off
\* calls alternate on, off, on, ..., starting with on, and ptt_active is
\* true exactly when the last callback was on.
C34_CallbacksAlternate ==
    /\ cbk.alt
    /\ vox.ptt_active <=> cbk.last = "on"
    /\ cbk.count = vox.ptt_activations + vox.ptt_deactivations

\* Four callbacks were made, the last by a force_ptt_off() that found the
\* VOX transmitting.
C34_Witness ==
    cbk.count >= 4 /\ cbk.forced = "transmitting" /\ cbk.last = "off"

\* C28: force_ptt_off(), called with the VOX idle or transmitting, leaves
\* it idle and makes a callback(False).
C28_ForceOffFiresCallback ==
    cbk.forced # "no" => (cbk.forced_idle /\ cbk.forced_cb = 1)

\* force_ptt_off() leaves the VOX idle, and makes one callback(False) if
\* it found the VOX transmitting and none if it found it idle.
C28_ForceOffWhenTransmitting ==
    cbk.forced # "no"
        => /\ cbk.forced_idle
           /\ cbk.forced_cb = IF cbk.forced = "transmitting" THEN 1 ELSE 0

-----------------------------------------------------------------------------
(* The TX pipeline from processor_to_vox_queue to the modem, with the echo *)
(* interlock written by the RX thread.  The bridge is started: its         *)
(* `running` flags are set and the gateway socket is open; sendto on the   *)
(* loopback interface succeeds (send failures: see the gateway alone).     *)

WirePtt(w, ptt_on, t, from_muted) ==
    IF ptt_on
    THEN [w EXCEPT !.ptt = "start", !.start_time = t, !.last = "start",
                   !.from_muted = from_muted]
    ELSE [w EXCEPT !.ptt = "stop", !.last = "stop"]

WirePcm(w, win) == [w EXCEPT !.last = "pcm", !.last_win = win]

\* What _send_loop did with a dequeued packet; ok says whether sendto
\* succeeded.
Dequeued(g, pkt, ok) ==
    IF pkt.pcm_data = <<>> THEN "empty"
    ELSE IF ~GatewaySends(pkt) THEN "skipped"
    ELSE IF g.socket /\ ok THEN "sent"
    ELSE "failed"

\* The stream observer after the VOX stage evaluated pkt at time t; r is the
\* result of process_audio_frame, fired says that the hard timeout fired on
\* this frame, dropped that the gate found the gateway queue full, and sent
\* is the PTT datagram sent by the callback ("none", "on", "off").
ScenStep(sc, pkt, r, t, fired, dropped, sent) ==
    LET loud   == AboveThreshold(pkt.pcm_data)
        silent == pkt.pcm_data # <<>> /\ ~loud
        shape  == CASE sc.shape = "pre"  /\ silent -> "pre"
                    [] sc.shape = "pre"  /\ loud   -> "loud"
                    [] sc.shape = "loud" /\ loud   -> "loud"
                    [] sc.shape = "loud" /\ silent -> "post"
                    [] sc.shape = "post" /\ silent -> "post"
                    [] OTHER -> "other"
        lock   == IF fired THEN loud ELSE sc.ht_lock /\ loud
    IN  IF sc.shape = "off" THEN sc
        ELSE IF shape = "other" \/ pkt.echo_muted
        THEN [ScenInit EXCEPT !.shape = "other", !.ht_lock = lock]
        ELSE [ shape      |-> shape,
               first_loud |-> IF sc.shape = "pre" /\ loud THEN t ELSE sc.first_loud,
               last_loud  |-> IF loud THEN t ELSE sc.last_loud,
               loud_n     |-> IF loud THEN sc.loud_n + 1 ELSE sc.loud_n,
               hang_n     |-> IF shape = "post" /\ t - sc.last_loud < HangTime
                              THEN sc.hang_n + 1 ELSE sc.hang_n,
               expired    |-> sc.expired
                                \/ (shape = "post" /\ t - sc.last_loud >= HangTime),
               dropped    |-> sc.dropped \/ dropped,
               ht_lock    |-> lock,
               starts     |-> IF sent = "on" THEN sc.starts + 1 ELSE sc.starts,
               stops      |-> IF sent = "off" THEN sc.stops + 1 ELSE sc.stops,
               stop_time  |-> IF sent = "off" THEN t ELSE sc.stop_time,
               pcm        |-> sc.pcm ]

\* The stream observer after a PCM datagram was sent.
ScenPcm(sc) ==
    IF sc.shape \in {"off", "other"} THEN sc ELSE [sc EXCEPT !.pcm = @ + 1]

\* PCM buffers of the frames arriving at the VOX stage.
PipePcm == { <<>>, <<0>>, <<Loud>> }

SpecInit ==
    /\ now = 0
    /\ vox = VoxInit
    /\ cbk = CbkInit
    /\ feed = FeedInit
    /\ cfg \in { c \in Configs : c.enable }
    /\ il = InterlockInit
    /\ rxg = RxgInit
    /\ q2 = <<>>
    /\ tx = TxInit
    /\ q3 = <<>>
    /\ gw = GatewayStart(GatewayInit)
    /\ wire = WireInit
    /\ scen = ScenOff
    /\ br = BridgeStarted
    /\ q1 = <<>>
    /\ usrp = UsrpStart(UsrpInit)
    /\ RxIdle

\* A frame arrives on processor_to_vox_queue.
Feed ==
    \E pcm \in PipePcm :
        /\ feed.n < MaxFrames
        /\ Len(q2) < QueueCap
        /\ q2' = Append(q2, NewPacket(pcm))
        /\ feed' = [feed EXCEPT !.n = @ + 1]
        /\ UNCHANGED <<now, vox, cbk, cfg, il, rxg, tx, q3, gw, wire, scen, bridgeVars>>

\* _tx_processing_loop: the packet is taken from the queue and the
\* interlock is asked whether TX is muted.
TxGet ==
    /\ tx.pc = "get"
    /\ q2 # <<>>
    /\ LET r == IsTxMuted(il, cfg, now)
           pkt == [Head(q2) EXCEPT !.win = InRxWindow(rxg, now)]
       IN  /\ il' = r.il
           /\ tx' = [ pc |-> IF r.muted /\ pkt.pcm_data # <<>> THEN "gain" ELSE "vox",
                      pkt |-> pkt,
                      muted |-> r.muted,
                      mute_gain |-> GainUnit ]
    /\ q2' = Tail(q2)
    /\ UNCHANGED <<now, vox, cbk, feed, cfg, rxg, q3, gw, wire, scen, bridgeVars>>

\* _tx_processing_loop, muted branch: get_tx_gain(1.0), the attenuation of
\* the buffer and the echo_muted flag.
TxGain ==
    /\ tx.pc = "gain"
    /\ LET r == GetTxGain(il, cfg, GainUnit, now)
       IN  /\ il' = r.il
           /\ tx' = [tx EXCEPT !.pc = "vox",
                               !.mute_gain = r.gain,
                               !.pkt.pcm_data = ScalePcm(@, r.gain),
                               !.pkt.echo_muted = TRUE]
    /\ UNCHANGED <<now, vox, cbk, feed, cfg, rxg, q2, q3, gw, wire, scen, bridgeVars>>

\* _tx_processing_loop: process_audio_frame with its PTT callback
\* (_ptt_callback: send_ptt_command), then the gate and the put on
\* vox_to_gateway_queue.
TxVox ==
    /\ tx.pc = "vox"
    /\ LET r       == ProcessAudioFrame(vox, tx.pkt, now)
           fired   == tx.pkt.pcm_data # <<>> /\ HardTimeoutExceeded(vox, now)
           pass    == TxGate(r.pkt)
           dropped == pass /\ Len(q3) >= QueueCap
           sent    == IF gw.socket THEN r.cb ELSE "none"
           due     == IF ~(vox.ptt_active
                            /\ now - vox.transmission_start_time >= HardTimeout)
                      THEN "no"
                      ELSE IF tx.pkt.pcm_data = <<>> THEN "empty"
                      ELSE IF AboveThreshold(tx.pkt.pcm_data) THEN "loud"
                      ELSE "silent"
       IN  /\ vox' = r.vox
           /\ gw' = IF r.cb = "none" THEN gw
                    ELSE SendPttCommand(gw, r.cb = "on", TRUE)
           /\ wire' = [ (IF sent = "none" THEN wire
                          ELSE WirePtt(wire, sent = "on", now, tx.muted))
                          EXCEPT !.blocked_win =
                              r.pkt.win /\ GetPttActive(r.pkt) /\ ~pass,
                                 !.due = due,
                                 !.due_hts = IF due = "no" THEN 0
                                             ELSE r.vox.hard_timeouts - vox.hard_timeouts,
                                 !.due_offs = IF due # "no" /\ r.cb = "off"
                                              THEN 1 ELSE 0,
                                 !.due_fwd = due # "no" /\ pass ]
           /\ scen' = ScenStep(scen, tx.pkt, r, now, fired, dropped, sent)
           /\ q3' = IF pass THEN QueuePut(q3, r.pkt) ELSE q3
    /\ tx' = [TxInit EXCEPT !.pc = "get"]
    /\ UNCHANGED <<now, cbk, feed, cfg, il, rxg, q2, bridgeVars>>

\* DMRGateway._send_loop: one packet of the queue; ok says whether sendto
\* succeeds.
GwSendStep(ok) ==
    /\ gw.running
    /\ q3 # <<>>
    /\ q3' = Tail(q3)
    /\ LET pkt == Head(q3)
           d   == Dequeued(gw, pkt, ok)
       IN  /\ gw' = IF GatewaySends(pkt) THEN SendPcmData(gw, ok) ELSE gw
           /\ wire' = [ (IF d = "sent" THEN WirePcm(wire, pkt.win) ELSE wire)
                          EXCEPT !.deq = d, !.deq_flag = GetPttActive(pkt) ]
           /\ scen' = IF d = "sent" THEN ScenPcm(scen) ELSE scen
    /\ UNCHANGED <<now, vox, cbk, feed, cfg, il, rxg, q2, tx, bridgeVars>>

GwSend == GwSendStep(TRUE)

\* _rx_processing_loop: an RX frame is delivered, set_rx_active(True).
RxDeliver ==
    /\ il' = SetRxActive(il, TRUE, now)
    /\ rxg' = NoteDelivery(rxg, now)
    /\ UNCHANGED <<now, vox, cbk, feed, cfg, q2, tx, q3, gw, wire, scen, bridgeVars>>

Tick ==
    /\ now < MaxTime
    /\ now' = now + 1
    /\ UNCHANGED <<vox, cbk, feed, cfg, il, rxg, q2, tx, q3, gw, wire, scen, bridgeVars>>

Next == Feed \/ TxGet \/ TxGain \/ TxVox \/ GwSend \/ RxDeliver \/ Tick

Spec == SpecInit /\ [][Next]_vars

\* The same pipeline with the interlock enabled or disabled (tx_mute_gain,
\* which is_tx_muted does not read, is 0).
InterlockSpecInit ==
    /\ now = 0
    /\ vox = VoxInit
    /\ cbk = CbkInit
    /\ feed = FeedInit
    /\ cfg \in { c \in Configs : c.tx_mute_gain = 0 }
    /\ il = InterlockInit
    /\ rxg = RxgInit
    /\ q2 = <<>>
    /\ tx = TxInit
    /\ q3 = <<>>
    /\ gw = GatewayStart(GatewayInit)
    /\ wire = WireInit
    /\ scen = ScenOff
    /\ br = BridgeStarted
    /\ q1 = <<>>
    /\ usrp = UsrpStart(UsrpInit)
    /\ RxIdle

InterlockSpec == InterlockSpecInit /\ [][Next]_vars

\* C29: is_tx_muted(), as the TX loop calls it on a dequeued frame, returns
\* true exactly when the interlock is enabled and the last
\* set_rx_active(True) was made no more than rx_timeout ago (never before
\* the first one, never when disabled); when the timeout has elapsed the
\* call leaves rx_active cleared.
C29_MutedExactlyInRxWindow ==
    [][ (tx.pc = "get" /\ tx'.pc # "get")
          => /\ tx'.muted <=> /\ cfg.enable
                               /\ rxg.last >= 0
                               /\ now - rxg.last <= RxTimeout
             /\ (cfg.enable /\ now - rxg.last > RxTimeout) => ~il'.rx_active
      ]_vars

\* A frame was found muted exactly rx_timeout after the last RX delivery.
C29_Witness ==
    /\ tx.pc = "gain"
    /\ tx.muted
    /\ ~tx.pkt.win
    /\ now - rxg.last = RxTimeout

\* The same pipeline with the interlock disabled and no RX traffic, the
\* stream observer switched on.
ScenarioInit ==
    /\ now = 0
    /\ vox = VoxInit
    /\ cbk = CbkInit
    /\ feed = FeedInit
    /\ PipeIdle

ScenarioNext == Feed \/ TxGet \/ TxVox \/ GwSend \/ Tick

ScenarioSpec == ScenarioInit /\ [][ScenarioNext]_vars

\* C2: a PTT-start on the wire is followed by a PTT-stop within hard_timeout.
C2_PttEndsWithinHardTimeout ==
    wire.ptt = "start" => now - wire.start_time <= HardTimeout

\* C27: a frame that arrives at the VOX stage while PTT is on and
\* hard_timeout or more after the transmission start leaves the VOX idle,
\* makes exactly one callback(False), increments hard_timeouts by one and
\* is not put on the gateway queue, whatever its amplitude.
C27_HardTimeoutFrame ==
    wire.due # "no"
        => /\ ~vox.ptt_active
           /\ wire.due_offs = 1
           /\ wire.due_hts = 1
           /\ ~wire.due_fwd

\* The same for the frames that carry a non-empty PCM buffer.
C27_HardTimeoutFrameNonEmpty ==
    wire.due \in {"silent", "loud"}
        => /\ ~vox.ptt_active
           /\ wire.due_offs = 1
           /\ wire.due_hts = 1
           /\ ~wire.due_fwd

\* A loud frame came with the hard timeout elapsed.
C27_LoudFrameDue == wire.due = "loud"

\* C30: the frame in the TX loop is flagged echo_muted if and only if its
\* PCM was multiplied by tx_mute_gain: no frame is flagged while its PCM is
\* left at full gain, whatever the RX thread and the clock do between
\* is_tx_muted() and get_tx_gain().
C30_FlaggedIffAttenuated ==
    /\ tx.pkt.echo_muted => tx.mute_gain = cfg.tx_mute_gain
    /\ tx.mute_gain # GainUnit => tx.pkt.echo_muted

\* Every frame whose PCM was attenuated is flagged echo_muted.
C30_AttenuatedIsFlagged ==
    tx.mute_gain # GainUnit => tx.pkt.echo_muted

\* C4: with the interlock enabled and tx_mute_gain = 0, no PCM datagram is
\* sent for a frame that the TX loop handed to the interlock after an RX
\* delivery T and before T + rx_timeout.
C4_NoPcmFromRxWindow ==
    (cfg.enable /\ cfg.tx_mute_gain = 0)
        => ~(wire.last = "pcm" /\ wire.last_win)

\* With tx_mute_gain = 0 a frame evaluated inside an RX window while PTT
\* was on came to the gate and was not queued.
C4_Witness == cfg.enable /\ cfg.tx_mute_gain = 0 /\ wire.blocked_win

\* C5: with the interlock enabled, no PTT-start is sent on a frame for
\* which is_tx_muted() returned true.
C5_NoPttStartFromMutedFrame ==
    cfg.enable => ~(wire.ptt = "start" /\ wire.from_muted)

\* The stream seen so far is silent frames, then loud frames, then silent
\* frames, the last of them hangtime or more after the last loud one.
ScenarioComplete == scen.shape = "post" /\ scen.expired

C9_IdleAfterHardTimeout ==
    scen.ht_lock => (~vox.ptt_active /\ vox.hard_timeouts = 1)

\* C35: every PCM datagram on the wire to the modem is sent after a
\* PTT-start and before the following PTT-stop: when a PCM datagram is
\* sent, the last PTT command sent is a PTT-start.
C35_PcmBetweenStartAndStop ==
    wire.last = "pcm" => wire.ptt = "start"

\* No PCM datagram is sent before any PTT-start.
C35_NoPcmBeforeFirstStart ==
    wire.last = "pcm" => wire.ptt # "none"

-----------------------------------------------------------------------------
(* The DMR gateway alone: any packets on its queue, PTT commands from its  *)
(* caller, sendto succeeding or raising.                                   *)

\* sendto raises at most MaxErrors times in one run.
MaxErrors == 2

\* At most MaxCommands PTT commands are issued in one run.
MaxCommands == 2

\* The packets a producer can put on the gateway queue: any buffer, the
\* 'ptt_active' key absent, false or true.
GatewayPackets ==
    { [NewPacket(pcm) EXCEPT !.has_ptt = h, !.ptt_active = a] :
        pcm \in PipePcm, h \in BOOLEAN, a \in BOOLEAN }

GatewaySpecInit ==
    /\ now = 0
    /\ vox = VoxInit
    /\ cbk = CbkInit
    /\ feed = FeedInit
    /\ PipeIdle

\* A producer puts a packet on the gateway queue.
GwEnqueue ==
    \E pkt \in GatewayPackets :
        /\ feed.n < MaxFrames
        /\ Len(q3) < QueueCap
        /\ (~pkt.has_ptt) => ~pkt.ptt_active
        /\ q3' = Append(q3, pkt)
        /\ feed' = [feed EXCEPT !.n = @ + 1]
        /\ UNCHANGED <<now, vox, cbk, cfg, il, rxg, q2, tx, gw, wire, scen, bridgeVars>>

\* _send_loop with either outcome of sendto.
GwSendAny ==
    \E ok \in BOOLEAN :
        /\ ok \/ (gw.errors < MaxErrors /\ q3 # <<>> /\ GatewaySends(Head(q3)))
        /\ GwSendStep(ok)

\* send_ptt_command(ptt_on) called by the owner of the gateway.
GwPttCommand ==
    \E ptt_on \in BOOLEAN, ok \in BOOLEAN :
        /\ gw.ptt_commands_sent + gw.errors < MaxCommands
        /\ gw' = SendPttCommand(gw, ptt_on, ok)
        /\ wire' = IF ok /\ gw.socket THEN WirePtt(wire, ptt_on, now, FALSE) ELSE wire
        /\ UNCHANGED <<now, vox, cbk, feed, cfg, il, rxg, q2, tx, q3, scen, bridgeVars>>

\* stop() called by the owner of the gateway, the sendto of its PTT-off
\* succeeding or raising (the bare except of stop() passes).
GwStop ==
    \E ok \in BOOLEAN :
        /\ gw.running
        /\ ok \/ (gw.ptt_active /\ gw.errors < MaxErrors)
        /\ gw' = IF ok THEN GatewayStop(gw)
                 ELSE [gw EXCEPT !.running = FALSE, !.socket = FALSE,
                                 !.errors = @ + 1]
        /\ wire' = IF ok /\ gw.ptt_active THEN WirePtt(wire, FALSE, now, FALSE)
                   ELSE wire
        /\ UNCHANGED <<now, vox, cbk, feed, cfg, il, rxg, q2, tx, q3, scen, bridgeVars>>

GatewaySpecNext == GwEnqueue \/ GwSendAny \/ GwPttCommand \/ GwStop

GatewaySpec == GatewaySpecInit /\ [][GatewaySpecNext]_vars

\* C39: ptt_active of the gateway is the value of the last PTT command
\* that was actually sent, false before any: a command that finds no open
\* socket or whose sendto raises leaves it as it is.
C39_PttActiveIsLastCommandSent ==
    gw.ptt_active <=> wire.ptt = "start"

\* The gateway was stopped with PTT on and the sendto of its PTT-off
\* raised: the socket is closed and ptt_active is still true.
C39_Witness ==
    ~gw.socket /\ gw.ptt_active /\ gw.errors > 0

\* C6: the send loop sends a PCM datagram only for a dequeued packet whose
\* ptt_active flag is true; a packet whose flag is false or absent is
\* skipped.
C6_PcmOnlyWhenPttActive ==
    wire.deq \in {"sent", "failed"} => wire.deq_flag

\* A packet without an active ptt_active flag was dequeued and skipped,
\* after one with the flag was sent.
C6_Witness == wire.deq = "skipped" /\ ~wire.deq_flag /\ gw.packets_sent = 1

-----------------------------------------------------------------------------
(* The bridge from construction to process exit: run(), start(), the       *)
(* signal handler and stop(), with the USRP server receiving datagrams     *)
(* from a client.                                                          *)

\* Whether __init__ created self._shutdown_lock: it assigns no such
\* attribute (nor _shutdown_complete), and nothing else does.
HasShutdownLock == FALSE

\* The statements of the body of stop(), in the order of the source.
ShutdownSteps ==
    << "clear_running", "final_ptt_stop", "force_ptt_off",
       "stop_usrp_server", "stop_dmr_gateway", "stop_mmdvm_receiver",
       "stop_usrp_client", "stop_status_logger",
       "join_threads", "final_statistics" >>

\* stop(): the bridge, gateway, VOX and USRP server after the call, whether
\* it raised, and whether it called send_ptt_command(False).  Without the
\* lock attribute the `with` statement raises AttributeError before any
\* other statement runs.
BridgeStop(b, g, v, u) ==
    LET called == [b EXCEPT !.stop_calls = @ + 1] IN
    IF ~HasShutdownLock
    THEN [ br |-> [called EXCEPT !.stop_raised = @ + 1],
           gw |-> g, vox |-> v, usrp |-> u, raised |-> TRUE, final |-> FALSE ]
    ELSE IF ~b.running
    THEN [ br |-> called, gw |-> g, vox |-> v, usrp |-> u,
           raised |-> FALSE, final |-> FALSE ]
    ELSE [ br |-> [called EXCEPT !.running = FALSE, !.final_ptt = TRUE,
                                 !.steps = @ \o ShutdownSteps],
           gw |-> GatewayStop(SendPttCommand(g, FALSE, TRUE)),
           vox |-> ForcePttOff(v),
           usrp |-> UsrpStop(u),
           raised |-> FALSE, final |-> g.socket ]

BridgeSpecInit ==
    /\ now = 0
    /\ vox = VoxInit
    /\ cbk = CbkInit
    /\ feed = FeedInit
    /\ PipeNew
    /\ gw = GatewayInit
    /\ br = BridgeInit
    /\ q1 = <<>>
    /\ usrp = UsrpInit

\* run() calls start(): the modules are initialized, the servers and the
\* threads started, running set.
BridgeStart ==
    /\ br.pc = "new"
    /\ ~br.running
    /\ usrp' = UsrpStart(usrp)
    /\ gw' = GatewayStart(gw)
    /\ br' = [br EXCEPT !.running = TRUE, !.pc = "run"]
    /\ UNCHANGED <<now, vox, cbk, feed, cfg, il, rxg, q2, tx, q3, wire, scen, q1, rxVars>>

\* USRPServer._receive_loop and _handle_packet: one datagram of a client.
\* An audio frame is put on usrp_to_processor_queue (dropped when the queue
\* is still full at the timeout); the other kinds are only counted or
\* logged.
UsrpRecv ==
    \E kind \in UsrpKinds, pcm \in PipePcm :
        /\ br.pc \in {"run", "exit"}
        /\ usrp.running
        /\ feed.n < MaxFrames
        /\ kind # "audio" => pcm = <<>>
        /\ feed' = [feed EXCEPT !.n = @ + 1]
        /\ q1' = IF kind = "audio"
                 THEN QueuePut(q1, UsrpPacket(feed.n + 1, pcm))
                 ELSE q1
        /\ usrp' = IF kind = "audio" /\ Len(q1) < QueueCap
                   THEN [usrp EXCEPT !.packet_count = @ + 1,
                                     !.sequence_counter = feed.n + 1]
                   ELSE IF kind = "audio"
                   THEN [usrp EXCEPT !.sequence_counter = feed.n + 1]
                   ELSE IF kind = "control"
                   THEN [usrp EXCEPT !.control_packet_count = @ + 1]
                   ELSE usrp
        /\ UNCHANGED <<now, vox, cbk, cfg, il, rxg, q2, tx, q3, gw, wire, scen, br, rxVars>>

\* SIGINT or SIGTERM while run() sleeps in its loop: _signal_handler calls
\* stop(), logs what it raised, and raises SystemExit from sys.exit(0).
SignalHandler ==
    /\ br.pc = "run"
    /\ LET r == BridgeStop(br, gw, vox, usrp) IN
        /\ br' = [r.br EXCEPT !.pc = "exit"]
        /\ gw' = r.gw
        /\ vox' = r.vox
        /\ usrp' = r.usrp
        /\ wire' = IF r.final THEN WirePtt(wire, FALSE, now, FALSE) ELSE wire
    /\ UNCHANGED <<now, cbk, feed, cfg, il, rxg, q2, tx, q3, scen, q1, rxVars>>

\* run(), finally clause, as SystemExit unwinds: stop() once more; then
\* the process ends, and with it the threads and the sockets.
RunFinally ==
    /\ br.pc = "exit"
    /\ LET r == BridgeStop(br, gw, vox, usrp) IN
        /\ br' = [r.br EXCEPT !.pc = "dead"]
        /\ gw' = [r.gw EXCEPT !.socket = FALSE]
        /\ vox' = r.vox
        /\ usrp' = [r.usrp EXCEPT !.socket = FALSE]
        /\ wire' = IF r.final THEN WirePtt(wire, FALSE, now, FALSE) ELSE wire
    /\ UNCHANGED <<now, cbk, feed, cfg, il, rxg, q2, tx, q3, scen, q1, rxVars>>

BridgeNext == BridgeStart \/ UsrpRecv \/ SignalHandler \/ RunFinally

\* The main thread is scheduled: start() is reached, and the finally
\* clause runs once SystemExit is raised.  Signals and datagrams come from
\* outside and need not come.
BridgeSpec ==
    /\ BridgeSpecInit
    /\ [][BridgeNext]_vars
    /\ WF_vars(BridgeStart)
    /\ WF_vars(RunFinally)

\* C3: once stop() has been invoked on the running bridge, a final PTT-stop
\* was attempted, and the gateway socket of a started bridge is not closed
\* without that attempt.
C3_FinalPttStopOnStop ==
    /\ br.stop_calls > 0 => br.final_ptt
    /\ (br.pc # "new" /\ ~gw.socket) => br.final_ptt

\* Statement x ran before statement y in the shutdown sequence.
RanBefore(x, y) ==
    \E i, j \in 1..Len(br.steps) :
        i < j /\ br.steps[i] = x /\ br.steps[j] = y

\* The component stops of stop(), which close the sockets.
SocketStops ==
    { "stop_usrp_server", "stop_dmr_gateway", "stop_mmdvm_receiver",
      "stop_usrp_client" }

\* C11: once stop() has been invoked on the running bridge, the shutdown
\* steps have run in order: running cleared first; the final PTT-stop and the
\* VOX force-off before any socket is closed; the sockets closed before the
\* threads are joined; the final statistics last.
C11_ShutdownStepsInOrder ==
    br.stop_calls > 0
        => /\ Len(br.steps) > 0
           /\ br.steps[1] = "clear_running"
           /\ \A c \in SocketStops :
                 /\ RanBefore("final_ptt_stop", c)
                 /\ RanBefore("force_ptt_off", c)
                 /\ RanBefore(c, "join_threads")
           /\ RanBefore("join_threads", "final_statistics")

\* C12: every stop() call returns without an exception, and however many
\* calls are made the shutdown sequence runs exactly once.
C12_StopIdempotent ==
    /\ br.stop_raised = 0
    /\ br.stop_calls > 0
          => Cardinality({ i \in 1..Len(br.steps) : br.steps[i] = "clear_running" }) = 1

\* C10: while the bridge runs, every audio frame at the head of
\* usrp_to_processor_queue is eventually taken from it.
C10_Q1FramesTaken ==
    \A n \in 1..MaxFrames :
        (br.pc = "run" /\ q1 # <<>> /\ Head(q1).sequence = n)
            ~> (br.pc # "run" \/ q1 = <<>> \/ Head(q1).sequence # n)

-----------------------------------------------------------------------------
(* The RX direction: MMDVMReceiver, the jitter buffer thread, the RX       *)
(* processing loop and the USRP client's send loop, each scheduled at any  *)
(* time.  time.time() is positive, and last_output_time = 0 stands for     *)
(* "nothing emitted yet": the clock starts at 1.                           *)

\* Bounds of the RX model.
RxMaxTime == 5

RxMaxFrames == 6

RxSpecInit ==
    /\ now = 1
    /\ vox = VoxInit
    /\ cbk = CbkInit
    /\ feed = FeedInit
    /\ PipeIdle

\* MMDVMReceiver._handle_packet on a TLV frame of type PCM with a
\* non-empty value.
MmdvmRecv ==
    /\ mm.sequence_counter < RxMaxFrames
    /\ LET pkt == MmdvmPacket(mm.sequence_counter, <<Loud>>)
       IN  /\ q4' = QueuePut(q4, pkt)
           /\ mm' = [mm EXCEPT !.sequence_counter = @ + 1,
                               !.packets_received =
                                   IF Len(q4) < QueueCap THEN @ + 1 ELSE @,
                               !.bytes_received =
                                   IF Len(q4) < QueueCap
                                   THEN @ + Len(CreateTlvFrame(PcmBytes(<<Loud>>)))
                                   ELSE @]
    /\ UNCHANGED <<now, vox, cbk, feed, cfg, il, rxg, q2, tx, q3, gw, wire,
                   scen, br, q1, usrp, jb, jcall, q5, q6, uc, udp, codecVars>>

\* One pass of _jitter_buffer_loop: JitterBuffer.process().
JbProcess ==
    /\ \E start \in BOOLEAN :
          LET r == JitterProcess(jb, q4, q5, now)
          IN  /\ jb' = r.jb
              /\ q4' = r.qin
              /\ q5' = r.qout
              /\ jcall' = NoteCall(jcall, jb, q5, r, now, start)
    /\ UNCHANGED <<now, vox, cbk, feed, cfg, il, rxg, q2, tx, q3, gw, wire,
                   scen, br, q1, usrp, mm, q6, uc, udp, codecVars>>

\* One pass of _rx_processing_loop with a packet on its queue.
RxLoop ==
    /\ q5 # <<>>
    /\ q5' = Tail(q5)
    /\ il' = SetRxActive(il, TRUE, now)
    /\ rxg' = NoteDelivery(rxg, now)
    /\ q6' = QueuePut(q6, ProcessRxAudio(Head(q5)))
    /\ UNCHANGED <<now, vox, cbk, feed, cfg, q2, tx, q3, gw, wire,
                   scen, br, q1, usrp, mm, q4, jb, jcall, uc, udp, codecVars>>

\* One pass of USRPClient._send_loop with a packet on its queue; ok says
\* whether sendto succeeds.  When it raises, the handler of the loop logs
\* and continues (sendto is let fail where the client is observed).
UcSend ==
    /\ q6 # <<>>
    /\ q6' = Tail(q6)
    /\ \E ok \in BOOLEAN :
        LET pcm == PcmBytes(Head(q6).pcm_data)
            r   == CreateUsrpPacket(uc.sequence_counter, pcm, now)
        IN  /\ ok \/ (udp.builds >= 0 /\ udp.fails < MaxErrors /\ r.packet # <<>>)
            /\ uc' = [uc EXCEPT !.sequence_counter = r.sequence_counter,
                                !.packets_sent = IF r.packet # <<>> /\ ok
                                                 THEN @ + 1 ELSE @,
                                !.taken = Head(q6).sequence]
            /\ udp' = IF udp.builds < 0 THEN udp
                       ELSE [udp EXCEPT !.builds = @ + 1,
                                        !.built = r.packet,
                                        !.built_pcm = pcm,
                                        !.built_seq = uc.sequence_counter,
                                        !.built_time = now,
                                        !.fails = IF ok THEN @ ELSE @ + 1]
    /\ UNCHANGED <<now, vox, cbk, feed, cfg, il, rxg, q2, tx, q3, gw, wire,
                   scen, br, q1, usrp, mm, q4, jb, jcall, q5, codecVars>>

RxTick ==
    /\ now < RxMaxTime
    /\ now' = now + 1
    /\ UNCHANGED <<vox, cbk, feed, cfg, pipeVars>>

RxNext == MmdvmRecv \/ JbProcess \/ RxLoop \/ UcSend \/ RxTick

RxSpec == RxSpecInit /\ [][RxNext]_vars

\* The sequence numbers of the frames of a queue, in queue order.
Sequences(q) == [i \in 1..Len(q) |-> q[i].sequence]

\* The frames of the RX direction from the one the USRP client took last
\* back to the newest on Q4.
RxInFlight ==
    (IF uc.taken >= 0 THEN <<uc.taken>> ELSE <<>>)
        \o Sequences(q6) \o Sequences(q5) \o Sequences(jb.buffer) \o Sequences(q4)

\* C14: at the end of every process() call the jitter buffer holds at most
\* 2 D frames.
C14_BufferAtMostTwiceDepth == Len(jb.buffer) <= 2 * BufferSize

\* A process() call found more frames waiting than the buffer takes: it
\* ended with the buffer at its depth and frames left on the input queue.
C14_Witness ==
    jcall.called /\ jcall.filled = BufferSize /\ q4 # <<>> /\ jcall.time = now
        /\ Len(jb.buffer) >= BufferSize - 1

\* C15: the frames between Q4 and the USRP client are in the order in
\* which MMDVMReceiver enqueued them, none twice: from the frame the client
\* took last back to the newest frame on Q4 the sequence numbers increase.
C15_RxArrivalOrder ==
    \A i, k \in 1..Len(RxInFlight) : i < k => RxInFlight[i] < RxInFlight[k]

\* Frames reached the USRP client while later ones were on every stage
\* behind it, and one frame was dropped on the way.
C15_Witness ==
    /\ uc.taken >= 0
    /\ q6 # <<>> /\ q5 # <<>> /\ jb.buffer # <<>>
    /\ Len(RxInFlight) >= 4
    /\ \E i \in 1..(Len(RxInFlight) - 1) : RxInFlight[i + 1] > RxInFlight[i] + 1

\* C37: the jitter buffer never holds more than buffer_size frames, neither
\* at the end of a process() call nor after its fill loop, so the overflow
\* loop never drops a frame and frames_dropped stays 0.
C37_BufferAtMostDepth ==
    /\ Len(jb.buffer) <= BufferSize
    /\ jcall.filled <= BufferSize
    /\ jb.frames_dropped = 0

\* A call filled the buffer to its depth, emitted nothing, and left a full
\* input queue behind; more frames than D went through the buffer.
C37_Witness ==
    /\ jcall.called /\ jcall.emitted = 0
    /\ Len(jb.buffer) = BufferSize
    /\ Len(q4) = QueueCap
    /\ jb.frames_buffered > BufferSize

\* C38: after every process() call frames_buffered = frames_output +
\* frames_dropped + len(buffer): every frame taken from the input queue is
\* still buffered, was put on the output queue, or is counted as dropped.
C38_FrameAccounting ==
    jb.frames_buffered = jb.frames_output + jb.frames_dropped + Len(jb.buffer)

\* The same as long as no call has lost a frame on a full output queue.
C38_FrameAccountingAtLeast ==
    /\ jb.frames_buffered >= jb.frames_output + jb.frames_dropped + Len(jb.buffer)
    /\ jb.frames_buffered = mm.packets_received - Len(q4)

\* The set of the sequence numbers of the frames of a queue.
SequenceSet(q) == { q[i].sequence : i \in 1..Len(q) }

\* C31: a frame popped for emission while Q5 stays full for the put
\* timeout is dropped: it is in neither the jitter buffer nor Q5, the call
\* leaves frames_output and last_output_time as they were, and the frames
\* behind it are still in the buffer in their order, to be emitted next.
C31_DroppedOnFullOutput ==
    jcall.lost >= 0
        => /\ jcall.lost \notin SequenceSet(jb.buffer) \cup SequenceSet(q5)
           /\ jcall.emitted = 0
           /\ jb.frames_output = jcall.out_before
           /\ jb.last_output_time = jcall.last_before
           /\ Len(jb.buffer) = jcall.filled - 1
           /\ \A i \in 1..Len(jb.buffer) :
                 /\ jb.buffer[i].sequence > jcall.lost
                 /\ i > 1 => jb.buffer[i].sequence > jb.buffer[i - 1].sequence

\* A call lost a frame on the full output queue and left another one
\* behind it in the buffer.
C31_Witness ==
    jcall.lost >= 0 /\ jb.buffer # <<>> /\ Len(q5) = QueueCap

\* The per-call part of the pacing of process(): at most one frame per
\* call; after the first emission a frame is emitted only when
\* now - last_output_time >= frame time, and the emission advances
\* last_output_time by exactly the frame time; the first emission sets it
\* to now.
PacingPerCall ==
    jcall.called
        => /\ jcall.emitted \in {0, 1}
           /\ jb.frames_output = jcall.out_before + jcall.emitted
           /\ (jcall.emitted = 1 /\ jcall.last_before = 0)
                 => jb.last_output_time = jcall.time
           /\ (jcall.emitted = 1 /\ jcall.last_before # 0)
                 => /\ jcall.time - jcall.last_before >= JitterFrameTime
                    /\ jb.last_output_time = jcall.last_before + JitterFrameTime

\* C16, as stated: the pacing of process() per call, the first frame ever
\* emitted by the first call that finds the buffer non-empty, and in an
\* underrun-free period starting with an emission at t0 at most
\* 1 + floor((t - t0) / frame time) frames emitted by time t.
C16_Pacing ==
    /\ PacingPerCall
    /\ (jcall.called /\ jcall.last_before = 0 /\ jcall.filled > 0)
          => jcall.emitted = 1
    /\ jcall.t0 >= 0
          => jcall.count <= 1 + ((now - jcall.t0) \div JitterFrameTime)

\* C16, amended: the pacing of process() per call, the first frame ever
\* emitted by the first call that finds the buffer non-empty, and in an
\* underrun-free period starting with an emission that left
\* last_output_time = L at most 1 + floor((t - L) / frame time) frames
\* emitted by time t.
C16_PacingFromLastEmit ==
    /\ PacingPerCall
    /\ (jcall.called /\ jcall.last_before = 0 /\ jcall.filled > 0)
          => jcall.emitted = 1
    /\ jcall.t0 >= 0
          => jcall.count <= 1 + ((now - jcall.base) \div JitterFrameTime)

\* A period that starts with a late emission (process() called later than
\* last_output_time + frame time) and holds a second emission.
C16_Witness ==
    jcall.t0 >= 0 /\ jcall.base < jcall.t0 /\ jcall.count >= 2

\* C17: a process() call increments underruns only when, after the fill
\* step, the buffer is empty, last_output_time is non-zero and
\* now - last_output_time >= frame time; that call emits nothing and
\* resets last_output_time to now; every other call leaves underruns
\* unchanged.
C17_UnderrunOnlyWhenEmptyAndDue ==
    jcall.called
        => /\ jb.underruns - jcall.under_before \in {0, 1}
           /\ jb.underruns = jcall.under_before + 1
                 => /\ jcall.filled = 0
                    /\ jcall.last_before # 0
                    /\ jcall.time - jcall.last_before >= JitterFrameTime
                    /\ jcall.emitted = 0
                    /\ jb.frames_output = jcall.out_before
                    /\ jb.last_output_time = jcall.time

\* The last process() call counted an underrun, the second one.
C17_Witness ==
    jcall.called /\ jb.underruns = jcall.under_before + 1 /\ jb.underruns >= 2

\* The RX direction with the packets of the USRP client observed.
UsrpClientSpecInit ==
    /\ now = 1
    /\ vox = VoxInit
    /\ cbk = CbkInit
    /\ feed = FeedInit
    /\ cfg = [enable |-> FALSE, tx_mute_gain |-> 0]
    /\ il = InterlockInit
    /\ rxg = RxgInit
    /\ q2 = <<>>
    /\ tx = TxInit
    /\ q3 = <<>>
    /\ gw = GatewayStart(GatewayInit)
    /\ wire = WireInit
    /\ scen = ScenInit
    /\ br = BridgeStarted
    /\ q1 = <<>>
    /\ usrp = UsrpStart(UsrpInit)
    /\ mm = MmdvmInit
    /\ q4 = <<>>
    /\ jb = JitterInit
    /\ jcall = JcallInit
    /\ q5 = <<>>
    /\ q6 = <<>>
    /\ uc = UsrpClientInit
    /\ udp = [UdpInit EXCEPT !.builds = 0]
    /\ CodecIdle

UsrpClientSpec == UsrpClientSpecInit /\ [][RxNext]_vars

\* C20: every packet built by USRPClient._create_usrp_packet is parsed by
\* USRPServer._parse_usrp_packet into the header fields it was built from
\* and the same payload.
C20_ClientPacketParsesBack ==
    udp.builds > 0
        => LET p == ParseUsrpPacket(udp.built)
           IN  /\ p.status = "ok"
               /\ p.payload = udp.built_pcm
               /\ p.header.packet_type = PacketTypeAudio
               /\ p.header.sequence = udp.built_seq
               /\ p.header.timestamp = TimestampUs(udp.built_time)
               /\ p.header.sample_rate = SampleRate
               /\ p.header.channels = Channels
               /\ p.header.sample_width = SampleWidth
               /\ p.header.payload_length = Len(udp.built_pcm)

\* C21: for every frame with PCM the USRP client dequeues, one datagram is
\* sent: 32 + len(pcm) bytes, the 32-byte header followed by the PCM; the
\* sequence numbers of successive datagrams increase by 1.
C21_OneDatagramPerFrame ==
    udp.builds > 0
        => /\ uc.packets_sent = udp.builds
           /\ Len(udp.built) = HeaderSize + Len(udp.built_pcm)
           /\ Slice(udp.built, 0, 4) = UsrpMagic
           /\ Slice(udp.built, HeaderSize, Len(udp.built)) = udp.built_pcm
           /\ FromLE(Slice(udp.built, 8, 12)) = udp.builds - 1

C33_UnsentFrameDropped ==
    udp.builds > 0 => \A i \in 1..Len(q6) : q6[i].sequence > uc.taken

\* The same for the gateway: a PCM send that failed was counted.
C33_GatewayFailedSendCounted ==
    wire.deq = "failed" => gw.errors > 0

-----------------------------------------------------------------------------
(* The USRP server alone, receiving any datagrams from a peer.  Nothing    *)
(* takes frames from usrp_to_processor_queue.                              *)

\* Bound of the datagram model.
MaxDatagrams == 3

\* A 32-byte header as a peer writes it: the fields of the documented
\* format up to sample_width, then two 16-bit fields at offsets 28 and 30.
UsrpHeader(type, seq, f28, f30) ==
    UsrpMagic \o LE(type, 4) \o LE(seq, 4) \o LE(TimestampUs(seq), 8)
        \o LE(SampleRate, 4) \o LE(Channels, 2) \o LE(SampleWidth, 2)
        \o LE(f28, 2) \o LE(f30, 2)

\* Payloads of a peer: none, a zero sample, a non-zero sample, two samples.
Payloads == { <<>>, <<0, 0>>, <<1, 0>>, <<0, 0, 1, 0>> }

\* The datagrams a peer may send as its n-th: headers of every packet type
\* with any lengths declared, followed by any payload; a header cut to 31
\* bytes; a header with a wrong magic.
UsrpDatagrams(n) ==
    { UsrpHeader(type, n, f28, f30) \o p :
          type \in {PacketTypeAudio, PacketTypeControl, 2},
          f28 \in {0, 2, 4}, f30 \in {0, 2, 4}, p \in Payloads }
      \cup { SubSeq(UsrpHeader(PacketTypeAudio, n, 0, 0), 1, HeaderSize - 1),
             <<88>> \o Tail(UsrpHeader(PacketTypeAudio, n, 0, 0)) }

UsrpSpecInit ==
    /\ now = 0
    /\ vox = VoxInit
    /\ cbk = CbkInit
    /\ feed = FeedInit
    /\ PipeIdle

\* One pass of USRPServer._receive_loop with a datagram on the socket.
UsrpDatagram ==
    /\ usrp.running
    /\ udp.n < MaxDatagrams
    /\ \E d \in UsrpDatagrams(udp.n + 1) :
          LET r == HandlePacket(usrp, q1, d)
          IN  /\ usrp' = r.usrp
              /\ q1' = r.q
              /\ udp' = [udp EXCEPT !.n = @ + 1, !.data = d,
                                    !.q1_before = q1, !.usrp_before = usrp]
    /\ UNCHANGED <<now, vox, cbk, feed, cfg, il, rxg, q2, tx, q3, gw, wire,
                   scen, br, mm, q4, jb, jcall, q5, q6, uc, codecVars>>

UsrpSpecNext == UsrpDatagram

UsrpSpec == UsrpSpecInit /\ [][UsrpSpecNext]_vars

\* The statistics counters of the USRP server.
UsrpCounters(u) == <<u.packet_count, u.error_count, u.control_packet_count>>

\* The last datagram handled carries the magic.
HasMagic == Slice(udp.data, 0, 4) = UsrpMagic

\* The last datagram handled is an audio datagram with a whole header.
IsAudioDatagram ==
    /\ udp.n > 0
    /\ Len(udp.data) >= HeaderSize
    /\ HasMagic
    /\ FromLE(Slice(udp.data, 4, 8)) = PacketTypeAudio

\* C13, for usrp_to_processor_queue: the queue never holds more than its
\* capacity; an audio frame that finds it full leaves it as it was, and the
\* server counts the drop in one of its counters.
C13_DropNewestAndCount ==
    /\ Len(q1) <= QueueCap
    /\ (IsAudioDatagram /\ ParseUsrpPacket(udp.data).status = "ok"
            /\ Len(udp.q1_before) = QueueCap)
          => /\ q1 = udp.q1_before
             /\ UsrpCounters(usrp) # UsrpCounters(udp.usrp_before)

\* C18: a datagram shorter than 32 bytes or without the magic enqueues
\* nothing, leaves the receive loop running and increases error_count by
\* exactly 1.
C18_MalformedDroppedAndCounted ==
    (udp.n > 0 /\ (Len(udp.data) < HeaderSize \/ ~HasMagic))
        => /\ q1 = udp.q1_before
           /\ usrp.running
           /\ usrp.error_count = udp.usrp_before.error_count + 1

\* The payload length an audio datagram declares in the last four bytes of
\* its 32-byte header.
DeclaredLength == FromLE(Slice(udp.data, 28, HeaderSize))

\* C19: an audio datagram that holds the payload its header declares
\* yields one frame whose pcm is the declared number of bytes after the
\* 32-byte header and whose format fields are the header's (the queue
\* having room); one that declares more than it holds is dropped.
C19_AudioFrameCarriesPayload ==
    IsAudioDatagram
        => IF HeaderSize + DeclaredLength <= Len(udp.data)
           THEN Len(udp.q1_before) < QueueCap
                  => /\ Len(q1) = Len(udp.q1_before) + 1
                     /\ SubSeq(q1, 1, Len(q1) - 1) = udp.q1_before
                     /\ LET f == q1[Len(q1)]
                        IN  /\ f.pcm_data = Slice(udp.data, HeaderSize, HeaderSize + DeclaredLength)
                            /\ f.sample_rate = FromLE(Slice(udp.data, 20, 24))
                            /\ f.channels = FromLE(Slice(udp.data, 24, 26))
                            /\ f.sample_width = FromLE(Slice(udp.data, 26, 28))
           ELSE q1 = udp.q1_before

-----------------------------------------------------------------------------
(* The TLV codec alone: an emitter of the gateway builds a frame from any  *)
(* value, the parser of the receiver parses it.                            *)

\* Bound of the TLV model: the values are all byte strings up to this
\* length, and some long ones.
MaxTlvLen == 3

TlvBytes == {0, 1, 128, 255}

\* n bytes 1, 2, 3, 1, 2, 3, ...
LongValue(n) == [i \in 1..n |-> 1 + (i % 3)]

\* All byte strings over TlvBytes of length n.
RECURSIVE Strings(_)
Strings(n) ==
    IF n = 0 THEN { <<>> }
    ELSE { <<b>> \o v : b \in TlvBytes, v \in Strings(n - 1) }

\* The values handed to the PCM emitter: short ones of every content, and
\* long ones whose length takes both length bytes.
TlvValues ==
    UNION { Strings(n) : n \in 0..MaxTlvLen }
        \cup { LongValue(n) : n \in {255, 256, 257, 1000} }

TlvSpecInit ==
    /\ now = 0
    /\ vox = VoxInit
    /\ cbk = CbkInit
    /\ feed = FeedInit
    /\ PipeIdle

\* The gateway builds a PCM frame.
TlvEmitPcm ==
    /\ tlv.pc # "built"
    /\ \E v \in TlvValues :
          tlv' = [tlv EXCEPT !.pc = "built", !.type = TlvTypePcm, !.value = v,
                             !.frame = CreateTlvFrame(v),
                             !.parsed = TlvInit.parsed]
    /\ UNCHANGED <<now, vox, cbk, feed, cfg, il, rxg, q2, tx, q3, gw, wire,
                   scen, br, q1, usrp, mm, q4, jb, jcall, q5, q6, uc, udp, mrx, rs, ip, lk>>

\* The gateway builds a PTT command.
TlvEmitPtt ==
    /\ tlv.pc # "built"
    /\ \E on \in BOOLEAN :
          tlv' = [tlv EXCEPT !.pc = "built",
                             !.type = IF on THEN TlvTypePttStart ELSE TlvTypePttStop,
                             !.value = <<>>,
                             !.frame = CreatePttCommand(on),
                             !.parsed = TlvInit.parsed]
    /\ UNCHANGED <<now, vox, cbk, feed, cfg, il, rxg, q2, tx, q3, gw, wire,
                   scen, br, q1, usrp, mm, q4, jb, jcall, q5, q6, uc, udp, mrx, rs, ip, lk>>

\* The receiver parses the frame.
TlvParse ==
    /\ tlv.pc = "built"
    /\ tlv' = [tlv EXCEPT !.pc = "parsed", !.parsed = ParseTlvFrame(tlv.frame)]
    /\ UNCHANGED <<now, vox, cbk, feed, cfg, il, rxg, q2, tx, q3, gw, wire,
                   scen, br, q1, usrp, mm, q4, jb, jcall, q5, q6, uc, udp, mrx, rs, ip, lk>>

TlvSpecNext == TlvEmitPcm \/ TlvEmitPtt \/ TlvParse

TlvSpec == TlvSpecInit /\ [][TlvSpecNext]_vars

\* C22: parsing the frame an emitter built from a type and a value returns
\* that type and that value.
C22_TlvRoundTrip ==
    tlv.pc = "parsed"
        => /\ tlv.parsed.ok
           /\ tlv.parsed.type = tlv.type
           /\ tlv.parsed.value = tlv.value

\* A PCM frame whose length needs the second length byte was parsed.
C22_Witness ==
    tlv.pc = "parsed" /\ tlv.type = TlvTypePcm /\ Len(tlv.value) >= 256

-----------------------------------------------------------------------------
(* The MMDVM receiver alone, receiving any TLV datagrams from the modem.   *)

\* The datagrams the modem may send: frames of the recognised types and of
\* an unknown one, with and without a value, with the length of the value
\* or a longer one declared; a datagram of one byte.
MmdvmDatagrams ==
    { <<t>> \o LE(l, 2) \o v :
          t \in {TlvTypePcm, TlvTypeAmbe, TlvTypePttStart, TlvTypePttStop, 9},
          l \in {0, 2, 4}, v \in {<<>>, <<4, 0>>, <<4, 0, 1, 0>>} }
      \cup { <<TlvTypePttStart>> }

MmdvmSpecInit ==
    /\ now = 1
    /\ vox = VoxInit
    /\ cbk = CbkInit
    /\ feed = FeedInit
    /\ PipeIdle

\* One pass of MMDVMReceiver._receive_loop with a datagram on the socket.
MmdvmDatagram ==
    /\ mrx.n < MaxDatagrams
    /\ \E d \in MmdvmDatagrams :
          LET r == MmdvmHandlePacket(mm, q4, d)
          IN  /\ mm' = r.mm
              /\ q4' = r.q
              /\ mrx' = [mrx EXCEPT !.n = @ + 1, !.data = d,
                                    !.mm_before = mm, !.q4_before = q4]
    /\ UNCHANGED <<now, vox, cbk, feed, cfg, il, rxg, q2, tx, q3, gw, wire,
                   scen, br, q1, usrp, jb, jcall, q5, q6, uc, udp, tlv, rs, ip, lk>>

MmdvmSpecNext == MmdvmDatagram

MmdvmSpec == MmdvmSpecInit /\ [][MmdvmSpecNext]_vars

\* The last datagram handled is a whole TLV frame of a type other than
\* PCM: a PTT command, AMBE or an unknown type.
IsControlDatagram ==
    /\ mrx.n > 0
    /\ ParseTlvFrame(mrx.data).ok
    /\ ParseTlvFrame(mrx.data).type # TlvTypePcm

\* C23: a TLV datagram of a type other than PCM puts nothing on Q4, leads
\* to no USRP emission, leaves the VOX, the gateway PTT state and the echo
\* interlock as they were, and is counted by the receiver.
C23_ControlFrameCountedAndDropped ==
    IsControlDatagram
        => /\ q4 = mrx.q4_before
           /\ uc.packets_sent = 0
           /\ vox = VoxInit
           /\ gw = GatewayStart(GatewayInit)
           /\ il = InterlockInit
           /\ mm # mrx.mm_before

-----------------------------------------------------------------------------
(* AudioResampler.resample as a function: mono inputs of every content up  *)
(* to MaxResampleLen samples and long ones that leave the pre-allocated    *)
(* buffers, at the target rate, above it and below it.                     *)

\* Bound of the resampler model.
MaxResampleLen == 3

ResampleRates == {4000, 8000, 16000, 48000}

RECURSIVE SampleStrings(_)
SampleStrings(n) ==
    IF n = 0 THEN { <<>> }
    ELSE { <<b>> \o v : b \in {-Loud, 0, Loud}, v \in SampleStrings(n - 1) }

\* 320 samples are the 20 ms frame at 16 kHz; the ramps of 8194 and 8200
\* samples give more than MaxSamples outputs at 16 kHz.
ResampleInputs ==
    UNION { SampleStrings(n) : n \in 0..MaxResampleLen }
        \cup { [i \in 1..n |-> i % 7] : n \in {320, 8194, 8200} }

ResamplerSpecInit ==
    /\ now = 0
    /\ vox = VoxInit
    /\ cbk = CbkInit
    /\ feed = FeedInit
    /\ PipeIdle

\* One call of resample.
RsCall ==
    \E a \in ResampleInputs, rate \in ResampleRates :
        /\ rs.calls < 1
        /\ rs' = [calls |-> rs.calls + 1, input |-> a, rate |-> rate,
                  output |-> Resample(a, rate)]
        /\ UNCHANGED <<now, vox, cbk, feed, cfg, il, rxg, q2, tx, q3, gw, wire,
                       scen, br, q1, usrp, mm, q4, jb, jcall, q5, q6, uc, udp,
                       tlv, mrx, ip, lk>>

ResamplerSpec == ResamplerSpecInit /\ [][RsCall]_vars

\* C26: resample returns floor(n * r_out / r_in) samples for a mono input
\* of n samples at rate r_in (160 for 320 samples at 16 kHz), and the input
\* unchanged when r_in is the target rate.
C26_ResampleLength ==
    rs.calls > 0
        => IF rs.rate = SampleRate
           THEN rs.output = rs.input
           ELSE Len(rs.output) = (Len(rs.input) * SampleRate) \div rs.rate

\* The same for the outputs longer than the pre-allocated buffers only.
C26_LongOutputLength ==
    (rs.calls > 0 /\ (Len(rs.input) * SampleRate) \div rs.rate > MaxSamples)
        => IF rs.rate = SampleRate
           THEN rs.output = rs.input
           ELSE Len(rs.output) = (Len(rs.input) * SampleRate) \div rs.rate

-----------------------------------------------------------------------------
(* AudioProcessor.process_audio on a frame in the target format at gain    *)
(* 1.0, AGC off, with any chain of up to MaxPlugins registered plugins.    *)

\* Bound of the interception chain.
MaxPlugins == 2

\* register_interception_plugin for each plugin of a chain, then one
\* process_audio call: the gain stage leaves the buffer as it is, the pipe
\* runs, the packet is returned and processed_frames counts it.
IpCall ==
    \E n \in 0..MaxPlugins, len \in {2, 4} :
      \E plugins \in [1..n -> {"gain", "odd", "raise"}],
         pcm \in [1..len -> {1, 2}] :
        LET r == ProcessInterceptionPipe(plugins, pcm) IN
        /\ ip.calls < 1
        /\ ip' = [ plugins |-> plugins,
                   processed_frames |-> ip.processed_frames + 1,
                   dropped_frames |-> ip.dropped_frames,
                   calls |-> ip.calls + 1,
                   input |-> pcm, output |-> r.data, invoked |-> r.invoked,
                   returned |-> TRUE ]
        /\ UNCHANGED <<now, vox, cbk, feed, cfg, il, rxg, q2, tx, q3, gw, wire,
                       scen, br, q1, usrp, mm, q4, jb, jcall, q5, q6, uc, udp,
                       tlv, mrx, rs, lk>>

InterceptionSpec == ResamplerSpecInit /\ [][IpCall]_vars

\* The first plugin of the chain that raises or returns a buffer that is
\* no whole number of samples; 0 when there is none.
FirstFailure ==
    LET RECURSIVE At(_)
        At(i) ==
            IF i > Len(ip.plugins) THEN 0
            ELSE IF ip.plugins[i] \in {"raise", "odd"} THEN i
            ELSE At(i + 1)
    IN  At(1)

\* C32: when a plugin of the chain raises or returns a buffer of invalid
\* length, no later plugin is invoked, the buffer forwarded is the one that
\* entered the chain, an error is counted and the frame is still forwarded.
C32_FailedPluginHaltsChain ==
    (ip.calls > 0 /\ FirstFailure > 0)
        => /\ ip.invoked = FirstFailure
           /\ ip.output = ip.input
           /\ ip.dropped_frames > 0
           /\ ip.returned

\* Of C32, what holds for a plugin that raises: no later plugin is invoked
\* and the frame is still forwarded.
C32_RaiseHaltsChain ==
    (ip.calls > 0 /\ \E i \in 1..Len(ip.plugins) : ip.plugins[i] = "raise")
        => /\ \E i \in 1..Len(ip.plugins) :
                 /\ ip.plugins[i] = "raise"
                 /\ ip.invoked = i
                 /\ \A k \in 1..(i - 1) : ip.plugins[k] # "raise"
           /\ ip.returned

-----------------------------------------------------------------------------
(* The locks of the running bridge: the five threads that take a lock or   *)
(* wait on a queue, each scheduled at any time.                            *)

\* One operation of one thread; an "acquire" waits until the lock is free.
LockStep ==
    \E th \in DOMAIN lk.pc :
        LET prog == Program(th)
            o    == prog[lk.pc[th]]
            To(k) == IF lk.pc[th] + k > Len(prog) THEN 1 ELSE lk.pc[th] + k
        IN  /\ o.op = "acquire" => lk[o.lock] = "none"
            /\ \E k \in {1, o.skip} :
                  lk' = [ il |-> IF o.lock = "il"
                                 THEN (IF o.op = "acquire" THEN th ELSE "none")
                                 ELSE lk.il,
                          st |-> IF o.lock = "st"
                                 THEN (IF o.op = "acquire" THEN th ELSE "none")
                                 ELSE lk.st,
                          pc |-> [lk.pc EXCEPT ![th] = To(k)] ]
            /\ UNCHANGED <<now, vox, cbk, feed, cfg, il, rxg, q2, tx, q3, gw, wire,
                           scen, br, q1, usrp, mm, q4, jb, jcall, q5, q6, uc, udp,
                           tlv, mrx, rs, ip>>

LockSpec == ResamplerSpecInit /\ [][LockStep]_vars

\* The operation a thread is at.
OpAt(th) == Program(th)[lk.pc[th]]

\* C40: no cyclic wait is reachable: a thread that waits for a lock, waits
\* on a queue or sleeps holds no lock, a thread that holds a lock is at the
\* release of that lock, and so every lock that is waited for is held by a
\* thread that can go on.
C40_NoCyclicWait ==
    \A th \in DOMAIN lk.pc :
        /\ OpAt(th).op \in {"acquire", "queue", "sleep", "branch"}
              => (lk.il # th /\ lk.st # th)
        /\ OpAt(th).op = "release"
              => /\ lk[OpAt(th).lock] = th
                 /\ \A l \in {"il", "st"} : l # OpAt(th).lock => lk[l] # th
        /\ (OpAt(th).op = "acquire" /\ lk[OpAt(th).lock] # "none")
              => OpAt(lk[OpAt(th).lock]).op = "release"

\* Both locks are held and waited for at once: the RX thread waits for the
\* interlock lock held by the TX thread, the statistics thread for the
\* status-logger lock held by the status logger's thread.
C40_Witness ==
    /\ lk.il = "tx" /\ OpAt("rx").op = "acquire" /\ OpAt("rx").lock = "il"
    /\ lk.st = "status" /\ OpAt("stats").op = "acquire"

=============================================================================
